---- MODULE Spec2Model ----
(***************************************************************************)
(* Report-refresh Glue jobs (ReportRefresh / BMTReportRefresh): main,      *)
(* fetch_pending_sps, execute_sp_with_retries, check_query_status,         *)
(* update_audit_log and send_sns_message as one sequential state machine.  *)
(* Texts (engine errors, exception texts, error_message) are sequences of  *)
(* tokens; the token ":" stands for the colon the code splits on.          *)
(* The trigger of the job (lambda_handler) is a second state machine,      *)
(* SpecTrigger, on the same run-level row: concurrent executions of the    *)
(* handler and the end-of-run write of the started job.                    *)
(***************************************************************************)
EXTENDS Integers, Sequences, FiniteSets, TLC

\* ---------------------------------------------------------------- bounds
MaxUnits == 2          \* rows the work-list query returns
MaxRetryLimit == 2     \* RETRY_LIMIT values 1..MaxRetryLimit
MaxPolls == 1          \* non-terminal describe_statement answers per statement
MaxPublishErrors == 1  \* failing sns publish calls in one run
MaxInvocations == 3    \* trigger invocations (lambda_handler) for one batch date
MaxPriorityFiles == 2  \* priority files of the region (rows with priorityflag = 'YES')
MaxMessages == 2       \* messages sns accepts from the trigger and the runs it starts

\* ------------------------------------------------------ program constants
max_retries == 3

reportregionname == "EMEA"
users_sns_arn == "users_sns_arn"

SPNames == <<"SP_A", "SP_B", "SP_C", "SP_D">>
DataSources == {"SPDST", "OTHERS", "BMT"}   \* file_datasource values
Jobs == {"SPDST", "BMT"}

NonTerminal == {"SUBMITTED", "PICKED", "STARTED"}
Terminal == {"FINISHED", "FAILED", "ABORTED"}

EngineErrors == { <<"ERROR", ":", "proc", ":", "failed">> }
ExceptionText == <<"ClientError", ":", "throttled">>
UnknownError == <<"Unknown error">>
NoErrorKey == <<"<absent>">>
Null == <<"Null">>
Unset == <<"<unset>">>

\* texts the trigger writes to error_message
NA == <<"NA">>
YetToStart == <<"SPDST report refresh yet to start">>
OtherRegionRunning == <<"Other Region Report Refresh is already running">>
BMTNotFinished == <<"BMT Report Refresh not Triggered/Finished for the day ..", ":", "BatchRunDate">>
CutOffReached == <<"Cut off time Reached and priority files not received", "em">>
PFMissing == <<"PF Missing ", "em">>

\* no row of (region, batch date, report source) in sc360_reportrefreshtrigger_log
NoRow == [execution_status |-> "no row", error_message |-> <<>>, actual_end_time |-> "unset"]

\* concurrent executions of the trigger
Slots == {1, 2}

\* locals of a trigger execution that is not running (a running one holds
\* the locals its statements to come read, and the counts it starts the job
\* with)
IdleInvocation == [pc |-> "idle", seen |-> "none", late |-> FALSE, priorityfiles |-> 0,
                   pfcount |-> 0, filesnotreceived |-> 0, filesfailed |-> 0, BMTFlag |-> 0]

\* a legacy script that is not running; em and stat have no value before
\* the loop assigns them
IdleLegacy == [script |-> "none", pc |-> "not started", table |-> <<>>, orderlist |-> <<>>,
               i |-> 1, curspname |-> "", file_source |-> "", submitted |-> <<>>,
               failedsps |-> <<>>, execution_status |-> "unset", stat |-> "unset",
               em |-> Unset, first_failure |-> 0,
               written |-> [execution_status |-> "unset", status |-> "unset",
                            error_message |-> Unset],
               notified |-> "none"]

\* locals of an execution of the BMT trigger that is not running (a running
\* one holds the locals its statements to come read)
IdleBmtExecution == [pc |-> "idle", branch |-> "none", hour |-> 0, minute |-> 0,
                     dependent_running |-> FALSE, filesfailed |-> 0]

\* the BMT trigger when no execution of it is running
IdleBmtTrigger == [cutoff_strt_hour |-> 0, cutoff_strt_min |-> 0, cutoff_end_hour |-> 0,
                   extraHour |-> 0, extraMin |-> 0, execution |-> IdleBmtExecution]

\* values of the environment variables of the BMT trigger
CutoffStartHours == {9}
CutoffStartMinutes == {0, 30}
CutoffEndHours == {12}
ExtraHours == {0, 1}
ExtraMinutes == {15}

\* texts the BMT trigger stores in error_message
BmtYetToStart == <<"BMT report refresh yet to start">>
BmtNull == <<"NULL">>

\* a text of the engine without a colon
PlainError == <<"cancelled">>

NoEntry == [tag |-> "unset", name |-> "", error |-> <<>>, data_source |-> "", region |-> ""]
UnexpectedError == [tag |-> "text", name |-> "Unexpected error", error |-> <<>>,
                    data_source |-> "", region |-> ""]

VARIABLES
    job,               \* which class runs: ReportRefresh ("SPDST") or BMTReportRefresh ("BMT")
    RETRY_LIMIT,       \* self.RETRY_LIMIT
    pc,                \* position of the run
    ret,               \* position to continue at when update_audit_log / send_sns_message returns
    stored_procedures, \* work list returned by fetch_pending_sps
    idx,               \* position of the for loop of main in stored_procedures
    success,           \* value returned by execute_sp_with_retries
    outcome,           \* "running", "returned" (main returned True) or "raised"
    retries,           \* local of execute_sp_with_retries
    query_status,      \* local of check_query_status
    response_error,    \* response_status['Error'] (NoErrorKey when the key is absent)
    polls,             \* non-terminal answers seen for the current statement
    error_message,     \* self.error_message (Unset while the attribute does not exist)
    failed_sp_entry,   \* self.failed_sp_entry (NoEntry while the attribute does not exist)
    ua_args,           \* arguments of the running update_audit_log call
    ua_stmt,           \* statement update_audit_log is executing
    ua_attempt,        \* attempt of execute_with_retry
    fetch_attempt,     \* attempt of fetch_pending_sps (the value it has when the
                       \* RuntimeError is raised stays)
    trigger_log,       \* run-level row of audit.sc360_reportrefreshtrigger_log
    master,            \* row of audit.Master_Data_For_IRR
    store_rejected,    \* TRUE once an rds-data call of the run has failed
    sns_args,          \* arguments of the running send_sns_message call
    published,         \* messages accepted by sns publish, in order
    publish_errors,    \* sns publish calls that have failed
    submitted,         \* names of the units in the order of their first execute_statement call
    attempts,          \* how each execute_statement call for the current unit ended, in order
    results,           \* one record per return of execute_sp_with_retries: the position of
                       \* the unit, the value returned (ok), how its last attempt ended (last)
    last_error,        \* error text of the most recent failed attempt of the current unit
    calls,             \* the update_audit_log / send_sns_message calls main has made and
                       \* the publish calls send_sns_message has made, in order
    audit_exhausted,   \* TRUE once execute_with_retry has raised after max_retries attempts
    events,            \* engine calls and sleeps of execute_sp_with_retries since its
                       \* latest execute_statement call, in order
    abandoned,         \* position of the first unit of the run with a statement that had not
                       \* reached a terminal status in the engine when its
                       \* describe_statement call raised; 0 when there is none
    invocations,       \* per concurrent execution of the trigger (lambda_handler): its
                       \* position and its locals
    invoked,           \* trigger invocations begun so far
    active_runs,       \* Glue job runs started by start_job_run that have not ended
    log_rows,          \* rows of sc360_reportrefreshtrigger_log for (region, today, SPDST)
    dependent_job,     \* the trigger of another region and its job (a dependent job of
                       \* this trigger): "idle", "checked" (that trigger has found this
                       \* region's job not running and has not yet started its own) or
                       \* "running"
    duplicate_row,     \* the second row of the day of sc360_reportrefreshtrigger_log
                       \* (NoRow while there is none); trigger_log is the first one
    job_runs,          \* the job runs started by the trigger that have not ended: the
                       \* positions of main at which runs are, and how many at each
    last_run,          \* the position of the run of the job that was started last
                       \* (JobRuns[0] of get_job_runs), EndedRun when it has ended
    legacy,            \* a run of a legacy script (sc360-reportrefresh-dev-emea.py or
                       \* sc360-BMT-reportrefresh-dev-ams.py): its position and variables
    bmt_trigger        \* the BMT trigger: its environment values, and of the running
                       \* execution the position, the time of day d and the branch taken

vars == <<job, RETRY_LIMIT, pc, ret, stored_procedures, idx, success, outcome,
          retries, query_status, response_error, polls, error_message, failed_sp_entry,
          ua_args, ua_stmt, ua_attempt, fetch_attempt, trigger_log, master, store_rejected,
          sns_args, published, publish_errors, submitted, attempts, results, last_error,
          calls, audit_exhausted, events, abandoned, invocations, invoked, active_runs,
          log_rows, dependent_job, duplicate_row, job_runs, last_run, legacy, bmt_trigger>>

cfgVars == <<job, RETRY_LIMIT>>
execVars == <<retries, query_status, response_error, polls>>
selfVars == <<error_message, failed_sp_entry>>
uaVars == <<ua_args, ua_stmt, ua_attempt>>
storeVars == <<trigger_log, master, store_rejected>>
snsVars == <<sns_args, published, publish_errors>>
histVars == <<submitted, attempts, results, last_error>>
obsVars == <<calls, audit_exhausted>>
engVars == <<events, abandoned>>
trigVars == <<invocations, invoked, active_runs, log_rows, dependent_job, duplicate_row,
              job_runs, last_run>>
scriptVars == <<legacy, bmt_trigger>>

\* ------------------------------------------------------------ pure helpers
Range(s) == { s[i] : i \in 1..Len(s) }

\* error_msg.split(":", 1)[-1] if ":" in error_msg else error_msg
SplitError(error_msg) ==
    IF ":" \in Range(error_msg)
    THEN LET first == CHOOSE i \in 1..Len(error_msg) :
                          /\ error_msg[i] = ":"
                          /\ \A j \in 1..(i-1) : error_msg[j] # ":"
         IN SubSeq(error_msg, first + 1, Len(error_msg))
    ELSE error_msg

\* response_status.get("Error", "Unknown error")
ErrorOf(resp_error) == IF resp_error = NoErrorKey THEN UnknownError ELSE resp_error

\* WHERE clause of fetch_pending_sps: file_datasource [NOT] LIKE '%BMT%'
Selected(j, file_datasource) ==
    IF j = "BMT" THEN file_datasource = "BMT" ELSE file_datasource # "BMT"

\* the Error of the execution a run of the job has failed with: a text of
\* the engine, no Error key, or the text of a raising describe_statement
RunErrors == EngineErrors \cup {NoErrorKey, ExceptionText}

\* how a run of the job has failed when main calls update_audit_log("Failed",
\* ...): the last execution reported FAILED with one of RunErrors
\* (self.error_message and self.failed_sp_entry are assigned), or the
\* submissions of the unit raised after a unit before had succeeded
\* (self.error_message is "Null", self.failed_sp_entry has no value)
RunFailures == RunErrors \cup {Null}

\* self.error_message of a failed run
RunErrorMessage(failure) ==
    IF failure = Null THEN Null ELSE SplitError(ErrorOf(failure))

\* positions of main between its calls to the store and to sns, as the
\* trigger and the rows see a run: before update_audit_log('InProgress',
\* is_initial=True); at work on the list; between sql1 and sql2 of an
\* update_audit_log call; before a publish of send_sns_message; between the
\* calls of lines 341-342 and the calls of lines 355-356 in the except
\* clause; after the last call
\* the rows of the work list a run of the job the trigger starts can fail at:
\* the first or the second one of the list, each of either file_datasource
\* the WHERE clause of the job lets through
RunUnits ==
    [stored_procedure_name : {SPNames[1], SPNames[2]},
     file_datasource : {"SPDST", "OTHERS"}]

NoUnit == [stored_procedure_name |-> "", file_datasource |-> ""]

RunPhases ==
    [at : {"initial", "work", "sql2 Completed", "sns Succeeded", "sns user", "sql2 again",
           "sns Unexpected", "exit"}, error : {<<>>}, unit : {NoUnit}]
    \cup [at : {"sql2 Failed", "sns Failed"}, error : RunErrors, unit : RunUnits]
    \cup [at : {"sql2 Failed"}, error : {Null}, unit : {NoUnit}]
    \cup [at : {"sql1 again"}, error : RunFailures, unit : {NoUnit}]

RunAt(at) == [at |-> at, error |-> <<>>, unit |-> NoUnit]

\* the run started last has ended (SUCCEEDED or FAILED)
EndedRun == RunAt("ended")

\* the run started last is the one the machine of main follows
FollowedRun == RunAt("main")

\* no run is active; the runs are held as the set of [run |-> position,
\* n |-> number of runs there] of the positions at which a run is
NoRuns == {}

\* the number of runs at position p
RunsAt(runs, p) ==
    IF \E e \in runs : e.run = p THEN (CHOOSE e \in runs : e.run = p).n ELSE 0

\* the runs with n of them at position p
WithRuns(runs, p, n) ==
    { e \in runs : e.run # p } \cup (IF n > 0 THEN {[run |-> p, n |-> n]} ELSE {})

\* one run moves from position p to position q, or ends
MoveRun(runs, p, q) ==
    IF p = q THEN runs
    ELSE IF q = EndedRun THEN WithRuns(runs, p, RunsAt(runs, p) - 1)
    ELSE LET left == WithRuns(runs, p, RunsAt(runs, p) - 1)
         IN  WithRuns(left, q, RunsAt(left, q) + 1)

\* "Data Source" of the failure record
DataSourceTag(j, file_source) ==
    IF j = "BMT" THEN "BMT"
    ELSE IF file_source = "SPDST" THEN "SPDST" ELSE "SPDST/Others"

\* self.failed_sp_entry of a run that has failed with an Error at the row
\* unit of its work list
RunFailedEntry(failure, unit) ==
    [tag |-> "entry", name |-> unit.stored_procedure_name, error |-> ErrorOf(failure),
     data_source |-> DataSourceTag("SPDST", unit.file_datasource),
     region |-> reportregionname]

\* a message of send_sns_message of the job, as sns has accepted it
StatusMsg(status, failed_sps) ==
    [kind |-> "status", topic |-> users_sns_arn, status |-> status, failed_sps |-> failed_sps]

UserMsg ==
    [kind |-> "user", topic |-> users_sns_arn, status |-> "Completed Successfully",
     failed_sps |-> <<>>]

\* a message of the trigger, by its subject
TriggerMsg(subject) ==
    [kind |-> "trigger", topic |-> "sns_arn", status |-> subject, failed_sps |-> <<>>]

\* what the work-list query can return: up to MaxUnits rows
\* (stored_procedure_name, file_datasource) that satisfy the WHERE clause, in
\* the order ORDER BY exec_order gave them; the rows are named by their place
\* in that order
QueryResults(j) ==
    UNION { { [i \in 1..n |-> [stored_procedure_name |-> SPNames[i],
                               file_datasource |-> ds[i]]] :
                ds \in [1..n -> { d \in DataSources : Selected(j, d) }] } :
            n \in 0..MaxUnits }

\* ------------------------------------------------------ decisions of the code
\* guard of the while loop of execute_sp_with_retries and of the retry branch
RetryBudgetLeft_OneMore(r, R) == r <= R
RetryBudgetLeft(r, R) == r < R

\* if query_status == "FAILED": ... else: (success)
IsFailed_AlsoFinished(status) == status \in {"FAILED", "FINISHED"}
IsFailed(status) == status = "FAILED"

\* except Exception as e: retries += 1
RetriesAfterException_Two(r) == r + 2
RetriesAfterException(r) == r + 1

\* if not success: (main stops the loop)
StopOnFailure_Never(ok) == FALSE
StopOnFailure(ok) == ~ok

\* the for loop of main moves to the next element of stored_procedures
NextUnit_Skip(i) == i + 2
NextUnit(i) == i + 1

\* if len(failed_sps) == 0: (the user-facing publish follows)
NoFailedSps_Always(failed_sps) == TRUE
NoFailedSps_Never(failed_sps) == FALSE
NoFailedSps(failed_sps) == Len(failed_sps) = 0

\* except Exception of update_audit_log: the RuntimeError of execute_with_retry
\* is printed and update_audit_log returns to its caller
AfterAuditExhausted_Propagate(return_pc) == "m_except"
AfterAuditExhausted(return_pc) == return_pc

\* except Exception of send_sns_message: the error of the publish is printed
\* and send_sns_message returns to its caller
AfterPublishError_Propagate(return_pc) == "m_except"
AfterPublishError(return_pc) == return_pc

\* except Exception of check_query_status: query_status = 'FAILED'
StatusAfterDescribeError_Aborted == "ABORTED"
StatusAfterDescribeError == "FAILED"

\* if attempt == max_retries: raise RuntimeError (execute_with_retry)
LastAuditAttempt_Fourth(attempt) == attempt = max_retries + 1
LastAuditAttempt(attempt) == attempt = max_retries

\* if attempt == max_retries: raise RuntimeError (fetch_pending_sps)
LastFetchAttempt_Second(attempt) == attempt = max_retries - 1
LastFetchAttempt(attempt) == attempt = max_retries

\* if is_initial: (the statement that sets actual_start_time and status)
TakesInitialBranch_Never(is_initial) == FALSE
TakesInitialBranch(is_initial) == is_initial

\* the work units in the order of their first execute_statement call
Submit(log, unit_attempts, sp_name) ==
    IF unit_attempts = <<>> THEN Append(log, sp_name) ELSE log

LastOf(unit_attempts) ==
    IF unit_attempts = <<>> THEN "NONE" ELSE unit_attempts[Len(unit_attempts)]

\* ------------------------------------------------------------------- Init
Init ==
    /\ job \in Jobs
    /\ RETRY_LIMIT \in 1..MaxRetryLimit
    /\ pc = "m_start"
    /\ ret = "none"
    /\ stored_procedures = <<>>
    /\ idx = 0
    /\ success = FALSE
    /\ outcome = "running"
    /\ retries = 0
    /\ query_status = "SUBMITTED"
    /\ response_error = NoErrorKey
    /\ polls = 0
    /\ error_message = Unset
    /\ failed_sp_entry = NoEntry
    /\ ua_args = [status |-> "none", execution_status |-> "None", is_initial |-> FALSE]
    /\ ua_stmt = "none"
    /\ ua_attempt = 1
    /\ fetch_attempt = 1
    /\ trigger_log = [execution_status |-> "Submitted", error_message |-> NA,
                      actual_end_time |-> "unset"]
    /\ master = [status |-> "Scheduled", actual_start_time |-> "unset"]
    /\ store_rejected = FALSE
    /\ sns_args = [status |-> "none", failed_sps |-> <<>>]
    /\ published = <<>>
    /\ publish_errors = 0
    /\ submitted = <<>>
    /\ attempts = <<>>
    /\ results = <<>>
    /\ last_error = Unset
    /\ calls = <<>>
    /\ audit_exhausted = FALSE
    /\ events = <<>>
    /\ abandoned = 0
    /\ invocations = [i \in Slots |-> IdleInvocation]
    /\ invoked = 1
    /\ active_runs = 1
    /\ log_rows = 1
    /\ dependent_job = "idle"
    /\ duplicate_row = NoRow
    /\ job_runs = NoRuns
    /\ last_run = FollowedRun
    /\ legacy = IdleLegacy
    /\ bmt_trigger = IdleBmtTrigger

\* ------------------------------------------------- calls made from main
CallAudit(status, execution_status, is_initial, return_pc) ==
    /\ ua_args' = [status |-> status, execution_status |-> execution_status,
                   is_initial |-> is_initial]
    /\ ua_stmt' = "none"
    /\ ua_attempt' = 1
    /\ calls' = Append(calls, [fn |-> "update_audit_log", status |-> status])
    /\ ret' = return_pc
    /\ pc' = "ua_entry"

CallSns(status, failed_sps, return_pc) ==
    /\ sns_args' = [status |-> status, failed_sps |-> failed_sps]
    /\ calls' = Append(calls, [fn |-> "send_sns_message", status |-> status])
    /\ ret' = return_pc
    /\ pc' = "sns_status"

\* --------------------------------------------------------- update_audit_log
\* builds the first statement; building sql1 reads self.error_message, and
\* the AttributeError of a missing attribute is caught by `except Exception`
update_audit_log ==
    /\ pc = "ua_entry"
    /\ IF TakesInitialBranch(ua_args.is_initial)
       THEN /\ ua_stmt' = "initial"
            /\ pc' = "ua_exec"
       ELSE IF error_message = Unset
            THEN /\ ua_stmt' = "none"
                 /\ pc' = ret
            ELSE /\ ua_stmt' = "sql1"
                 /\ pc' = "ua_exec"
    /\ ua_attempt' = 1
    /\ UNCHANGED <<cfgVars, trigVars, scriptVars, engVars, obsVars, ret, stored_procedures, idx, success, outcome, execVars,
                   selfVars, ua_args, fetch_attempt, storeVars, snsVars, histVars>>

\* the store executes the statement of execute_with_retry
execute_with_retry_ok ==
    /\ pc = "ua_exec"
    /\ CASE ua_stmt = "initial" ->
              /\ master' = [status |-> ua_args.status, actual_start_time |-> "set"]
              /\ UNCHANGED trigger_log
         [] ua_stmt = "sql1" ->
              /\ trigger_log' = [execution_status |-> ua_args.execution_status,
                                 error_message |-> error_message,
                                 actual_end_time |-> "set"]
              /\ UNCHANGED master
         [] OTHER ->
              /\ master' = [master EXCEPT !.status = ua_args.status]
              /\ UNCHANGED trigger_log
    /\ IF ua_stmt = "sql1"
       THEN /\ ua_stmt' = "sql2"
            /\ pc' = "ua_exec"
       ELSE /\ ua_stmt' = "none"
            /\ pc' = ret
    /\ ua_attempt' = 1
    /\ UNCHANGED <<cfgVars, trigVars, scriptVars, engVars, obsVars, ret, stored_procedures, idx, success, outcome, execVars,
                   selfVars, ua_args, fetch_attempt, store_rejected, snsVars, histVars>>

\* the store rejects the statement: retried up to max_retries times, then the
\* RuntimeError is caught by update_audit_log, which returns
execute_with_retry_fail ==
    /\ pc = "ua_exec"
    /\ store_rejected' = TRUE
    /\ IF LastAuditAttempt(ua_attempt)
       THEN /\ ua_attempt' = 1
            /\ ua_stmt' = "none"
            /\ audit_exhausted' = TRUE
            /\ pc' = AfterAuditExhausted(ret)
       ELSE /\ ua_attempt' = ua_attempt + 1
            /\ UNCHANGED <<ua_stmt, pc, audit_exhausted>>
    /\ UNCHANGED <<cfgVars, trigVars, scriptVars, engVars, calls, ret, stored_procedures, idx, success, outcome, execVars,
                   selfVars, ua_args, fetch_attempt, trigger_log, master, snsVars, histVars>>

\* --------------------------------------------------------- send_sns_message
\* status publish; the user-facing publish follows when failed_sps is empty
publish_status_ok ==
    /\ pc = "sns_status"
    /\ published' = Append(published, [kind |-> "status", topic |-> users_sns_arn,
                                       status |-> sns_args.status,
                                       failed_sps |-> sns_args.failed_sps])
    /\ calls' = Append(calls, [fn |-> "publish", status |-> "status"])
    /\ pc' = IF NoFailedSps(sns_args.failed_sps) THEN "sns_user" ELSE ret
    /\ UNCHANGED <<cfgVars, trigVars, scriptVars, engVars, audit_exhausted, ret, stored_procedures, idx, success, outcome, execVars,
                   selfVars, uaVars, fetch_attempt, storeVars, sns_args, publish_errors,
                   histVars>>

publish_user_ok ==
    /\ pc = "sns_user"
    /\ published' = Append(published, [kind |-> "user", topic |-> users_sns_arn,
                                       status |-> "Completed Successfully",
                                       failed_sps |-> <<>>])
    /\ calls' = Append(calls, [fn |-> "publish", status |-> "user"])
    /\ pc' = ret
    /\ UNCHANGED <<cfgVars, trigVars, scriptVars, engVars, audit_exhausted, ret, stored_procedures, idx, success, outcome, execVars,
                   selfVars, uaVars, fetch_attempt, storeVars, sns_args, publish_errors,
                   histVars>>

\* a publish raises: caught by `except Exception`, send_sns_message returns
publish_raise ==
    /\ pc \in {"sns_status", "sns_user"}
    /\ publish_errors < MaxPublishErrors
    /\ publish_errors' = publish_errors + 1
    /\ calls' = Append(calls, [fn |-> "publish",
                             status |-> IF pc = "sns_status" THEN "status" ELSE "user"])
    /\ pc' = AfterPublishError(ret)
    /\ UNCHANGED <<cfgVars, trigVars, scriptVars, engVars, audit_exhausted, ret, stored_procedures, idx, success, outcome, execVars,
                   selfVars, uaVars, fetch_attempt, storeVars, sns_args, published,
                   histVars>>

\* ------------------------------------------------------------------- main
\* self.update_audit_log('InProgress', is_initial=True)
main_start ==
    /\ pc = "m_start"
    /\ CallAudit("InProgress", "None", TRUE, "m_fetch")
    /\ UNCHANGED <<cfgVars, trigVars, scriptVars, engVars, audit_exhausted, stored_procedures, idx, success, outcome, execVars, selfVars,
                   fetch_attempt, storeVars, snsVars, histVars>>

\* fetch_pending_sps: the lookup succeeds and its rows are returned;
\* main then takes the empty-list branch or enters the for loop
fetch_pending_sps_ok ==
    /\ pc = "m_fetch"
    /\ \E rows \in QueryResults(job) :
         /\ stored_procedures' = rows
         /\ pc' = IF Len(rows) = 0 THEN "m_empty" ELSE "m_for"
    /\ idx' = 1
    /\ fetch_attempt' = 1
    /\ UNCHANGED <<cfgVars, trigVars, scriptVars, engVars, obsVars, ret, success, outcome, execVars, selfVars, uaVars, storeVars,
                   snsVars, histVars>>

\* fetch_pending_sps: the lookup fails; after max_retries failures the
\* RuntimeError reaches the except clause of main
fetch_pending_sps_fail ==
    /\ pc = "m_fetch"
    /\ store_rejected' = TRUE
    /\ IF LastFetchAttempt(fetch_attempt)
       THEN /\ pc' = "m_except"
            /\ UNCHANGED fetch_attempt
       ELSE /\ fetch_attempt' = fetch_attempt + 1
            /\ UNCHANGED pc
    /\ UNCHANGED <<cfgVars, trigVars, scriptVars, engVars, obsVars, ret, stored_procedures, idx, success, outcome, execVars,
                   selfVars, uaVars, trigger_log, master, snsVars, histVars>>

\* if not stored_procedures: send_sns_message("Succeeded"); return True
main_empty ==
    /\ pc = "m_empty"
    /\ CallSns("Succeeded", <<>>, "m_return")
    /\ UNCHANGED <<cfgVars, trigVars, scriptVars, engVars, audit_exhausted, stored_procedures, idx, success, outcome, execVars, selfVars,
                   uaVars, fetch_attempt, storeVars, published, publish_errors, histVars>>

\* for sp_name, file_source in stored_procedures: execute_sp_with_retries(...)
\* (retries = 0); after the last element: update_audit_log("Completed", "Finished")
main_for ==
    /\ pc = "m_for"
    /\ IF idx <= Len(stored_procedures)
       THEN /\ retries' = 0
            /\ attempts' = <<>>
            /\ last_error' = Unset
            /\ pc' = "e_while"
            /\ UNCHANGED <<ret, uaVars, calls>>
       ELSE /\ CallAudit("Completed", "Finished", FALSE, "m_final_sns")
            /\ UNCHANGED <<retries, attempts, last_error>>
    /\ UNCHANGED <<cfgVars, trigVars, scriptVars, engVars, audit_exhausted, stored_procedures, idx, success, outcome, query_status,
                   response_error, polls, selfVars, fetch_attempt, storeVars, snsVars,
                   submitted, results>>

\* ------------------------------------------------- execute_sp_with_retries
\* while retries < self.RETRY_LIMIT: ...; after the loop: return False
execute_sp_while ==
    /\ pc = "e_while"
    /\ IF RetryBudgetLeft(retries, RETRY_LIMIT)
       THEN /\ pc' = "e_submit"
            /\ UNCHANGED <<success, results>>
       ELSE /\ success' = FALSE
            /\ results' = Append(results, [unit |-> idx, ok |-> FALSE, last |-> LastOf(attempts)])
            /\ pc' = "m_after"
    /\ UNCHANGED <<cfgVars, trigVars, scriptVars, engVars, obsVars, ret, stored_procedures, idx, outcome, execVars, selfVars,
                   uaVars, fetch_attempt, storeVars, snsVars, submitted, attempts,
                   last_error>>

\* redshiftclient.execute_statement returns a query id
execute_statement_ok ==
    /\ pc = "e_submit"
    /\ attempts' = Append(attempts, "PENDING")
    /\ submitted' = Submit(submitted, attempts, stored_procedures[idx].stored_procedure_name)
    /\ events' = <<"execute_statement">>
    /\ query_status' = "SUBMITTED"
    /\ response_error' = NoErrorKey
    /\ polls' = 0
    /\ pc' = "c_poll"
    /\ UNCHANGED <<cfgVars, trigVars, scriptVars, abandoned, obsVars, ret, stored_procedures, idx, success, outcome, retries,
                   selfVars, uaVars, fetch_attempt, storeVars, snsVars, results, last_error>>

\* redshiftclient.execute_statement raises: except Exception: retries += 1
execute_statement_raise ==
    /\ pc = "e_submit"
    /\ attempts' = Append(attempts, "EXC")
    /\ submitted' = Submit(submitted, attempts, stored_procedures[idx].stored_procedure_name)
    /\ events' = <<"execute_statement raised">>
    /\ last_error' = ExceptionText
    /\ retries' = RetriesAfterException(retries)
    /\ pc' = "e_while"
    /\ UNCHANGED <<cfgVars, trigVars, scriptVars, abandoned, obsVars, ret, stored_procedures, idx, success, outcome, query_status,
                   response_error, polls, selfVars, uaVars, fetch_attempt, storeVars,
                   snsVars, results>>

\* ------------------------------------------------------- check_query_status
\* describe_statement answers; the loop ends on a terminal status
describe_statement_ok ==
    /\ pc = "c_poll"
    /\ \E s \in NonTerminal \cup Terminal :
         /\ s \in NonTerminal => polls < MaxPolls
         /\ query_status' = s
         /\ polls' = IF s \in NonTerminal THEN polls + 1 ELSE 0
         /\ \E e \in (IF s = "FAILED" THEN EngineErrors \cup {NoErrorKey} ELSE {NoErrorKey}) :
              response_error' = e
         /\ IF s \in Terminal
            THEN /\ attempts' = [attempts EXCEPT ![Len(attempts)] = s]
                 /\ pc' = "e_classify"
            ELSE UNCHANGED <<attempts, pc>>
    /\ events' = Append(events, "describe_statement")
    /\ UNCHANGED <<cfgVars, trigVars, scriptVars, abandoned, obsVars, ret, stored_procedures, idx, success, outcome, retries,
                   selfVars, uaVars, fetch_attempt, storeVars, snsVars, submitted, results,
                   last_error>>

\* describe_statement raises: status FAILED with the exception text, sleep, return
describe_statement_raise ==
    /\ pc = "c_poll"
    /\ query_status' = StatusAfterDescribeError
    /\ events' = events \o <<"describe_statement raised", "sleep(sleep_time)">>
    /\ \E still_running \in BOOLEAN :
         abandoned' = IF still_running /\ abandoned = 0 THEN idx ELSE abandoned
    /\ response_error' = ExceptionText
    /\ attempts' = [attempts EXCEPT ![Len(attempts)] = StatusAfterDescribeError]
    /\ polls' = 0
    /\ pc' = "e_classify"
    /\ UNCHANGED <<cfgVars, trigVars, scriptVars, obsVars, ret, stored_procedures, idx, success, outcome, retries,
                   selfVars, uaVars, fetch_attempt, storeVars, snsVars, submitted, results,
                   last_error>>

\* the branch of execute_sp_with_retries on the status check_query_status returned
execute_sp_classify ==
    /\ pc = "e_classify"
    /\ IF IsFailed(query_status)
       THEN LET error_msg == ErrorOf(response_error) IN
            /\ retries' = retries + 1
            /\ last_error' = error_msg
            /\ IF RetryBudgetLeft(retries + 1, RETRY_LIMIT)
               THEN /\ events' = Append(events, "sleep(120)")
                    /\ pc' = "e_while"
                    /\ UNCHANGED <<selfVars, success, results>>
               ELSE /\ failed_sp_entry' =
                          [tag |-> "entry",
                           name |-> stored_procedures[idx].stored_procedure_name,
                           error |-> error_msg,
                           data_source |-> DataSourceTag(job, stored_procedures[idx].file_datasource),
                           region |-> reportregionname]
                    /\ error_message' = SplitError(error_msg)
                    /\ success' = FALSE
                    /\ results' = Append(results, [unit |-> idx, ok |-> FALSE, last |-> LastOf(attempts)])
                    /\ pc' = "m_after"
                    /\ UNCHANGED events
       ELSE /\ error_message' = Null
            /\ success' = TRUE
            /\ results' = Append(results, [unit |-> idx, ok |-> TRUE, last |-> LastOf(attempts)])
            /\ pc' = "m_after"
            /\ UNCHANGED <<retries, failed_sp_entry, last_error, events>>
    /\ UNCHANGED <<cfgVars, trigVars, scriptVars, abandoned, obsVars, ret, stored_procedures, idx, outcome, query_status,
                   response_error, polls, uaVars, fetch_attempt, storeVars, snsVars, submitted,
                   attempts>>

\* --------------------------------------------------------- main, continued
\* if not success: update_audit_log("Failed", ...); otherwise the next element
main_after_exec ==
    /\ pc = "m_after"
    /\ events' = <<>>
    /\ IF StopOnFailure(success)
       THEN /\ CallAudit("Failed", "Failed", FALSE, "m_fail_sns")
            /\ UNCHANGED idx
       ELSE /\ idx' = NextUnit(idx)
            /\ pc' = "m_for"
            /\ UNCHANGED <<ret, uaVars, calls>>
    /\ UNCHANGED <<cfgVars, trigVars, scriptVars, abandoned, audit_exhausted, stored_procedures, success, outcome, execVars, selfVars,
                   fetch_attempt, storeVars, snsVars, histVars>>

\* self.send_sns_message("Failed", [self.failed_sp_entry]): reading a missing
\* failed_sp_entry raises AttributeError, which the except clause of main catches
main_fail_sns ==
    /\ pc = "m_fail_sns"
    /\ IF failed_sp_entry = NoEntry
       THEN /\ pc' = "m_except"
            /\ UNCHANGED <<ret, sns_args, calls>>
       ELSE CallSns("Failed", <<failed_sp_entry>>, "m_raise")
    /\ UNCHANGED <<cfgVars, trigVars, scriptVars, engVars, audit_exhausted, stored_procedures, idx, success, outcome, execVars, selfVars,
                   uaVars, fetch_attempt, storeVars, published, publish_errors, histVars>>

\* raise Exception(...) inside the try block of main: caught by its except clause
main_raise ==
    /\ pc = "m_raise"
    /\ pc' = "m_except"
    /\ UNCHANGED <<cfgVars, trigVars, scriptVars, engVars, obsVars, ret, stored_procedures, idx, success, outcome, execVars,
                   selfVars, uaVars, fetch_attempt, storeVars, snsVars, histVars>>

\* except Exception: update_audit_log("Failed", execution_status="Failed")
main_except ==
    /\ pc = "m_except"
    /\ CallAudit("Failed", "Failed", FALSE, "m_except_sns")
    /\ UNCHANGED <<cfgVars, trigVars, scriptVars, engVars, audit_exhausted, stored_procedures, idx, success, outcome, execVars, selfVars,
                   fetch_attempt, storeVars, snsVars, histVars>>

\* send_sns_message("Failed", ["Unexpected error"])
main_except_sns ==
    /\ pc = "m_except_sns"
    /\ CallSns("Failed", <<UnexpectedError>>, "m_reraise")
    /\ UNCHANGED <<cfgVars, trigVars, scriptVars, engVars, audit_exhausted, stored_procedures, idx, success, outcome, execVars, selfVars,
                   uaVars, fetch_attempt, storeVars, published, publish_errors, histVars>>

\* raise: main ends with the exception
main_reraise ==
    /\ pc = "m_reraise"
    /\ outcome' = "raised"
    /\ pc' = "done"
    /\ UNCHANGED <<cfgVars, trigVars, scriptVars, engVars, obsVars, ret, stored_procedures, idx, success, execVars, selfVars,
                   uaVars, fetch_attempt, storeVars, snsVars, histVars>>

\* after the final audit write: send_sns_message("Succeeded")
main_final_sns ==
    /\ pc = "m_final_sns"
    /\ CallSns("Succeeded", <<>>, "m_return")
    /\ UNCHANGED <<cfgVars, trigVars, scriptVars, engVars, audit_exhausted, stored_procedures, idx, success, outcome, execVars, selfVars,
                   uaVars, fetch_attempt, storeVars, published, publish_errors, histVars>>

\* return True
main_return ==
    /\ pc = "m_return"
    /\ outcome' = "returned"
    /\ pc' = "done"
    /\ UNCHANGED <<cfgVars, trigVars, scriptVars, engVars, obsVars, ret, stored_procedures, idx, success, execVars, selfVars,
                   uaVars, fetch_attempt, storeVars, snsVars, histVars>>

Next ==
    \/ main_start
    \/ update_audit_log
    \/ execute_with_retry_ok
    \/ execute_with_retry_fail
    \/ fetch_pending_sps_ok
    \/ fetch_pending_sps_fail
    \/ main_empty
    \/ main_for
    \/ execute_sp_while
    \/ execute_statement_ok
    \/ execute_statement_raise
    \/ describe_statement_ok
    \/ describe_statement_raise
    \/ execute_sp_classify
    \/ main_after_exec
    \/ main_fail_sns
    \/ main_raise
    \/ main_except
    \/ main_except_sns
    \/ main_reraise
    \/ main_final_sns
    \/ main_return
    \/ publish_status_ok
    \/ publish_user_ok
    \/ publish_raise

Spec == Init /\ [][Next]_vars

\* ------------------------------------------------------------------ trigger
\* old_sc360-SPDST-reportrefresh-emea.py, lambda_handler: each execution of
\* the handler moves through its statements on the run-level row one at a
\* time, so that two executions interleave between any two of them, and so
\* do the runs of the job they start: a run is followed through the
\* statements of update_audit_log it executes on the rows (the store
\* executes each of them; the machine of main above has the failing store).

\* if E[0][0] > 0: (the row of the day exists)
RowExists_Never(count) == FALSE
RowExists(count) == count > 0

\* execution_status[0][0] in ('Finished','Submitted')
AlreadyTriggered_FinishedOnly(status) == status = "Finished"
AlreadyTriggered(status) == status \in {"Finished", "Submitted"}

\* if pfcount == len(priorityfiles) and BMTFlag == 1:
MayStart_FilesOnly(pfcount, priorityfiles, BMTFlag) == pfcount = priorityfiles
MayStart(pfcount, priorityfiles, BMTFlag) == pfcount = priorityfiles /\ BMTFlag = 1

\* status_dependent_job in ['STARTING','RUNNING','STOPPING']
DependentRunning(state) == state = "running"

\* BMTFlag = 1; if BMTRefreshcount[0][0] == 0: BMTFlag = 0
BMTFlagOf(BMTRefreshcount) == IF BMTRefreshcount = 0 THEN 0 ELSE 1

\* UPDATE ... SET execution_status, error_message WHERE (region, date, source)
UpdateRow(row, status, message) ==
    IF row = NoRow THEN row
    ELSE [row EXCEPT !.execution_status = status, !.error_message = message]

\* if d > join_start: UPDATE ... SET execution_status = 'Delay'
DelayIfLate(row, is_late, message) ==
    IF is_late THEN UpdateRow(row, "Delay", message) ELSE row

\* UPDATE ... SET execution_status, actual_end_time, error_message WHERE
\* (region, date, source) of update_audit_log (sql1)
StoreRunRow(row, status, message) ==
    IF row = NoRow THEN row
    ELSE [execution_status |-> status, error_message |-> message, actual_end_time |-> "set"]

\* the row INSERTed by the else branch of the handler
YetToStartRow == [execution_status |-> "Yet to start", error_message |-> YetToStart,
                  actual_end_time |-> "unset"]

InitTrigger ==
    /\ job = "SPDST"
    /\ RETRY_LIMIT = 1
    /\ pc = "not started"
    /\ ret = "none"
    /\ stored_procedures = <<>>
    /\ idx = 0
    /\ success = FALSE
    /\ outcome = "running"
    /\ retries = 0
    /\ query_status = "SUBMITTED"
    /\ response_error = NoErrorKey
    /\ polls = 0
    /\ error_message = Unset
    /\ failed_sp_entry = NoEntry
    /\ ua_args = [status |-> "none", execution_status |-> "None", is_initial |-> FALSE]
    /\ ua_stmt = "none"
    /\ ua_attempt = 1
    /\ fetch_attempt = 1
    /\ trigger_log = NoRow
    /\ master = [status |-> "Scheduled", actual_start_time |-> "unset"]
    /\ store_rejected = FALSE
    /\ sns_args = [status |-> "none", failed_sps |-> <<>>]
    /\ published = <<>>
    /\ publish_errors = 0
    /\ submitted = <<>>
    /\ attempts = <<>>
    /\ results = <<>>
    /\ last_error = Unset
    /\ calls = <<>>
    /\ audit_exhausted = FALSE
    /\ events = <<>>
    /\ abandoned = 0
    /\ invocations = [i \in Slots |-> IdleInvocation]
    /\ invoked = 0
    /\ active_runs = 0
    /\ log_rows = 0
    /\ dependent_job = "idle"
    /\ duplicate_row = NoRow
    /\ job_runs = NoRuns
    /\ last_run = EndedRun
    /\ legacy = IdleLegacy
    /\ bmt_trigger = IdleBmtTrigger

jobOwnVars == <<cfgVars, pc, ret, stored_procedures, idx, success, outcome, execVars, selfVars,
                uaVars, fetch_attempt, store_rejected, sns_args, publish_errors, histVars,
                obsVars, engVars, scriptVars>>
jobVars == <<jobOwnVars, master>>
rowVars == <<trigger_log, duplicate_row, log_rows>>
runVars == <<active_runs, job_runs, last_run>>

\* the outcomes of a publish call: sns accepts the message or raises; it
\* accepts at most MaxMessages messages
SnsAccepts == IF Len(published) < MaxMessages THEN BOOLEAN ELSE {FALSE}

\* how the loop over the priority files can end for a region with n of
\* them: every file is counted in pfcount (loaded, or empty at the source),
\* appended to filesnotreceived (not arrived, no process failed), appended
\* to filesfailed (a process failed for it, or its reference_dt is not the
\* day before), or none of these (arrived and in process)
PriorityFileCounts(n) ==
    { c \in [pfcount : 0..n, filesnotreceived : 0..n, filesfailed : 0..n] :
          c.pfcount + c.filesnotreceived + c.filesfailed <= n }

\* the outcomes of a statement the handler executes on the store outside
\* every try: it is executed, or it raises and the execution ends there
StoreRaises == BOOLEAN

\* select count(*) ...; if E[0][0] > 0: (go on to the guard) else: (go on to
\* the INSERT).  The executions are interchangeable: a new one takes the
\* first free slot.
lambda_handler_begin(i) ==
    /\ invocations[i].pc = "idle"
    /\ \A j \in Slots : j < i => invocations[j].pc # "idle"
    /\ invoked < MaxInvocations
    /\ invoked' = invoked + 1
    /\ \E raised \in StoreRaises :
         IF raised
         THEN invocations' = [invocations EXCEPT ![i] = IdleInvocation]
         ELSE IF RowExists(log_rows)
         THEN \E is_late \in BOOLEAN :
                invocations' = [invocations EXCEPT ![i] =
                                   [IdleInvocation EXCEPT !.pc = "guard", !.late = is_late]]
         ELSE invocations' = [invocations EXCEPT ![i] = [IdleInvocation EXCEPT !.pc = "insert"]]
    /\ UNCHANGED <<jobVars, published, rowVars, runVars, dependent_job>>

\* else: INSERT INTO audit.sc360_reportrefreshtrigger_log ... 'Yet to start'
\* and commit, outside every try: when the store raises the execution ends
\* with no row inserted
lambda_insert(i) ==
    /\ invocations[i].pc = "insert"
    /\ \E raised \in StoreRaises :
         IF raised
         THEN UNCHANGED rowVars
         ELSE /\ IF trigger_log = NoRow
                 THEN trigger_log' = YetToStartRow /\ UNCHANGED duplicate_row
                 ELSE duplicate_row' = YetToStartRow /\ UNCHANGED trigger_log
              /\ log_rows' = log_rows + 1
    /\ invocations' = [invocations EXCEPT ![i] = IdleInvocation]
    /\ UNCHANGED <<jobVars, published, invoked, runVars, dependent_job>>

\* select execution_status ...; if ... in ('Finished','Submitted'): sys.exit(e)
\* (execution_status[0][0] is the first row of the day); of an execution
\* that exits here the status it has read is kept.  When the select raises
\* the execution ends there.
lambda_guard(i) ==
    /\ invocations[i].pc = "guard"
    /\ \E raised \in StoreRaises :
         invocations' = [invocations EXCEPT ![i] =
                            IF raised THEN IdleInvocation
                            ELSE IF AlreadyTriggered(trigger_log.execution_status)
                            THEN [IdleInvocation EXCEPT !.seen = trigger_log.execution_status]
                            ELSE [@ EXCEPT !.seen = trigger_log.execution_status,
                                           !.pc = "dependents"]]
    /\ UNCHANGED <<jobVars, published, rowVars, invoked, runVars, dependent_job>>

\* get_job_runs of the dependent jobs and ['JobRuns'][0]['JobRunState'] of
\* each answer; if one is STARTING/RUNNING/STOPPING: Delay when
\* d > join_start, then sys.exit.  When get_job_runs raises, or a dependent
\* job has no run (JobRuns[0] of an empty list), or the UPDATE raises, the
\* execution ends there with the exception.
lambda_dependent_jobs(i) ==
    /\ invocations[i].pc = "dependents"
    /\ \E answered \in BOOLEAN, other_dependent_running \in BOOLEAN,
          raised \in IF invocations[i].late THEN StoreRaises ELSE {FALSE} :
         IF ~answered
         THEN /\ invocations' = [invocations EXCEPT ![i] = IdleInvocation]
              /\ UNCHANGED <<trigger_log, duplicate_row>>
         ELSE IF DependentRunning(dependent_job) \/ other_dependent_running
         THEN /\ trigger_log' = IF raised THEN trigger_log ELSE
                                    DelayIfLate(trigger_log, invocations[i].late,
                                                OtherRegionRunning)
              /\ duplicate_row' = IF raised THEN duplicate_row ELSE
                                      DelayIfLate(duplicate_row, invocations[i].late,
                                                  OtherRegionRunning)
              /\ invocations' = [invocations EXCEPT ![i] = IdleInvocation]
         ELSE /\ invocations' = [invocations EXCEPT ![i].pc = "files", ![i].seen = "none"]
              /\ UNCHANGED <<trigger_log, duplicate_row>>
    /\ UNCHANGED <<jobVars, published, log_rows, invoked, runVars, dependent_job>>

\* the priority files are selected and the loop over them counts them (the
\* region has MaxPriorityFiles of them); then the BMT rows with
\* execution_Status Finished are counted; none: BMTFlag = 0 and Delay when
\* d > join_start
lambda_priority_files(i) ==
    /\ invocations[i].pc = "files"
    /\ \E c \in PriorityFileCounts(MaxPriorityFiles), BMTRefreshcount \in 0..1 :
         /\ invocations' = [invocations EXCEPT
                               ![i].pc = "decide",
                               ![i].priorityfiles = MaxPriorityFiles,
                               ![i].pfcount = c.pfcount,
                               ![i].filesnotreceived = c.filesnotreceived,
                               ![i].filesfailed = c.filesfailed,
                               ![i].BMTFlag = BMTFlagOf(BMTRefreshcount)]
         /\ trigger_log' = IF BMTRefreshcount = 0
                           THEN DelayIfLate(trigger_log, invocations[i].late, BMTNotFinished)
                           ELSE trigger_log
         /\ duplicate_row' = IF BMTRefreshcount = 0
                             THEN DelayIfLate(duplicate_row, invocations[i].late,
                                              BMTNotFinished)
                             ELSE duplicate_row
    /\ UNCHANGED <<jobVars, published, log_rows, invoked, runVars, dependent_job>>

\* the execution ends between the selects of line 243 and the UPDATE of
\* line 452: a select raises, reference_dt of a loaded PND file is empty
\* (reference_dt[0][0]), list_objects_v2 raises for a file that is not
\* loaded, or the UPDATE raises; nothing has been written
lambda_priority_files_raises(i) ==
    /\ invocations[i].pc = "files"
    /\ invocations' = [invocations EXCEPT ![i] = IdleInvocation]
    /\ UNCHANGED <<jobVars, published, rowVars, invoked, runVars, dependent_job>>

\* if pfcount == len(priorityfiles) and BMTFlag == 1: sns.publish(...) of
\* the start message; when it raises the execution ends with the exception
lambda_publish_started(i) ==
    /\ invocations[i].pc = "decide"
    /\ MayStart(invocations[i].pfcount, invocations[i].priorityfiles, invocations[i].BMTFlag)
    /\ \E accepted \in SnsAccepts :
         IF ~accepted
         THEN /\ invocations' = [invocations EXCEPT ![i] = IdleInvocation]
              /\ UNCHANGED published
         ELSE /\ published' = Append(published, TriggerMsg("SPDST report refresh is started"))
              /\ invocations' = [invocations EXCEPT ![i].pc = "start_job_run",
                                                     ![i].late = FALSE]
    /\ UNCHANGED <<jobVars, rowVars, invoked, runVars, dependent_job>>

\* glueclient.start_job_run(JobName=glue_job): a run of the job begins
lambda_start_job(i) ==
    /\ invocations[i].pc = "start_job_run"
    /\ active_runs' = active_runs + 1
    /\ job_runs' = WithRuns(job_runs, RunAt("initial"),
                           RunsAt(job_runs, RunAt("initial")) + 1)
    /\ last_run' = RunAt("initial")
    /\ invocations' = [invocations EXCEPT ![i].pc = "started"]
    /\ UNCHANGED <<jobVars, published, rowVars, invoked, dependent_job>>

\* start_job_run raises: the execution ends with the exception, no run has
\* begun and no row is written
lambda_start_job_raises(i) ==
    /\ invocations[i].pc = "start_job_run"
    /\ invocations' = [invocations EXCEPT ![i] = IdleInvocation]
    /\ UNCHANGED <<jobVars, published, rowVars, invoked, runVars, dependent_job>>

\* UPDATE ... SET Actual_Start_time, execution_status = 'Submitted',
\* error_message = 'NA' and commit, outside every try: when the store raises
\* the execution ends and the row keeps what it held, the run started
lambda_write_submitted(i) ==
    /\ invocations[i].pc = "started"
    /\ \E raised \in StoreRaises :
         IF raised
         THEN /\ invocations' = [invocations EXCEPT ![i] = IdleInvocation]
              /\ UNCHANGED <<trigger_log, duplicate_row>>
         ELSE /\ trigger_log' = UpdateRow(trigger_log, "Submitted", NA)
              /\ duplicate_row' = UpdateRow(duplicate_row, "Submitted", NA)
              /\ invocations' = [invocations EXCEPT ![i] =
                                    [IdleInvocation EXCEPT !.pc = "delay"]]
    /\ UNCHANGED <<jobVars, published, log_rows, invoked, runVars, dependent_job>>

\* where an execution goes after the Delay UPDATE of the cut-off branch:
\* if len(filesnotreceived) > 0: send_sns_message; if len(filesfailed) > 0:
\* send_sns_message_failed; then the delay block
AfterCutoff(invocation) ==
    IF invocation.filesnotreceived > 0
    THEN [IdleInvocation EXCEPT !.pc = "notify missing",
                                !.filesnotreceived = invocation.filesnotreceived,
                                !.filesfailed = invocation.filesfailed]
    ELSE IF invocation.filesfailed > 0
    THEN [IdleInvocation EXCEPT !.pc = "notify failure",
                                !.filesfailed = invocation.filesfailed]
    ELSE [IdleInvocation EXCEPT !.pc = "delay"]

\* elif pfcount != len(priorityfiles) and snstimeperiod == 'YES': Delay with
\* the cut-off text when d > join_start (the UPDATE is outside every try:
\* when the store raises the execution ends there)
lambda_cutoff(i) ==
    /\ invocations[i].pc = "decide"
    /\ ~MayStart(invocations[i].pfcount, invocations[i].priorityfiles, invocations[i].BMTFlag)
    /\ invocations[i].pfcount # invocations[i].priorityfiles
    /\ \E raised \in IF invocations[i].late THEN StoreRaises ELSE {FALSE} :
         IF raised
         THEN /\ invocations' = [invocations EXCEPT ![i] = IdleInvocation]
              /\ UNCHANGED <<trigger_log, duplicate_row>>
         ELSE /\ trigger_log' = DelayIfLate(trigger_log, invocations[i].late, CutOffReached)
              /\ duplicate_row' = DelayIfLate(duplicate_row, invocations[i].late,
                                              CutOffReached)
              /\ invocations' = [invocations EXCEPT ![i] = AfterCutoff(invocations[i])]
    /\ UNCHANGED <<jobVars, published, log_rows, invoked, runVars, dependent_job>>

\* send_sns_message(env, filesnotreceived, process_name, region): sns.publish,
\* outside every try
lambda_send_sns_message(i) ==
    /\ invocations[i].pc = "notify missing"
    /\ \E accepted \in SnsAccepts :
         IF ~accepted
         THEN /\ invocations' = [invocations EXCEPT ![i] = IdleInvocation]
              /\ UNCHANGED published
         ELSE /\ published' = Append(published, TriggerMsg("SPDST Priority File Missing"))
              /\ invocations' = [invocations EXCEPT ![i] =
                                    AfterCutoff([invocations[i] EXCEPT
                                                    !.filesnotreceived = 0])]
    /\ UNCHANGED <<jobVars, rowVars, invoked, runVars, dependent_job>>

\* send_sns_message_failed(env, filesfailed, 'NA', region): sns.publish,
\* outside every try
lambda_send_sns_message_failed(i) ==
    /\ invocations[i].pc = "notify failure"
    /\ \E accepted \in SnsAccepts :
         IF ~accepted
         THEN /\ invocations' = [invocations EXCEPT ![i] = IdleInvocation]
              /\ UNCHANGED published
         ELSE /\ published' = Append(published, TriggerMsg("SPDST Priority File Failure"))
              /\ invocations' = [invocations EXCEPT ![i] =
                                    [IdleInvocation EXCEPT !.pc = "delay"]]
    /\ UNCHANGED <<jobVars, rowVars, invoked, runVars, dependent_job>>

\* else: Delay with "PF Missing" when d > join_start (files missing outside
\* the cut-off period, or files ready and BMTFlag == 0), then the select of
\* the row; when the UPDATE or the select raises the execution ends there
lambda_monitor(i) ==
    /\ invocations[i].pc = "decide"
    /\ ~MayStart(invocations[i].pfcount, invocations[i].priorityfiles, invocations[i].BMTFlag)
    /\ \E update_raised \in IF invocations[i].late THEN StoreRaises ELSE {FALSE},
          select_raised \in StoreRaises :
         IF update_raised
         THEN /\ invocations' = [invocations EXCEPT ![i] = IdleInvocation]
              /\ UNCHANGED <<trigger_log, duplicate_row>>
         ELSE /\ trigger_log' = DelayIfLate(trigger_log, invocations[i].late, PFMissing)
              /\ duplicate_row' = DelayIfLate(duplicate_row, invocations[i].late, PFMissing)
              /\ invocations' = [invocations EXCEPT ![i] =
                                    IF select_raised THEN IdleInvocation
                                    ELSE [IdleInvocation EXCEPT !.pc = "delay"]]
    /\ UNCHANGED <<jobVars, published, log_rows, invoked, runVars, dependent_job>>

\* after the three branches: if delay_snstimeperiod == 'YES' and the row of
\* the next day is absent or Failed: sns.publish of the delay message; the
\* handler returns (or ends with the exception of the select or the publish)
lambda_delay_block(i) ==
    /\ invocations[i].pc = "delay"
    /\ \E due \in BOOLEAN, accepted \in SnsAccepts :
         published' = IF due /\ accepted
                      THEN Append(published, TriggerMsg("Delay in SPDST Report Refresh"))
                      ELSE published
    /\ invocations' = [invocations EXCEPT ![i] = IdleInvocation]
    /\ UNCHANGED <<jobVars, rowVars, invoked, runVars, dependent_job>>

\* a run at position p goes on to position q (EndedRun: it ends); it is the
\* run started last, or another one
RunStep(p, q) ==
    /\ RunsAt(job_runs, p) > 0
    /\ \E is_last \in BOOLEAN :
         /\ is_last => last_run = p
         /\ ~is_last => RunsAt(job_runs, p) > (IF last_run = p THEN 1 ELSE 0)
         /\ last_run' = IF is_last THEN q ELSE last_run
    /\ job_runs' = MoveRun(job_runs, p, q)

\* send_sns_message publishes; an exception of sns is caught there
RunPublish(message) ==
    \E accepted \in SnsAccepts :
        published' = IF accepted THEN Append(published, message) ELSE published

\* a started run calls update_audit_log('InProgress', is_initial=True): the
\* master row gets its start time and InProgress
job_run_initial ==
    /\ RunStep(RunAt("initial"), RunAt("work"))
    /\ master' = [status |-> "InProgress", actual_start_time |-> "set"]
    /\ UNCHANGED <<jobOwnVars, published, rowVars, invocations, invoked, active_runs,
                   dependent_job>>

\* every unit of the run has succeeded: update_audit_log("Completed",
\* execution_status="Finished") executes sql1
job_run_finished_sql1 ==
    /\ RunStep(RunAt("work"), RunAt("sql2 Completed"))
    /\ trigger_log' = StoreRunRow(trigger_log, "Finished", Null)
    /\ duplicate_row' = StoreRunRow(duplicate_row, "Finished", Null)
    /\ UNCHANGED <<jobVars, published, log_rows, invocations, invoked, active_runs,
                   dependent_job>>

\* if not stored_procedures: send_sns_message("Succeeded") without a call
\* of update_audit_log
job_run_empty_list ==
    /\ RunStep(RunAt("work"), RunAt("sns Succeeded"))
    /\ UNCHANGED <<jobVars, published, rowVars, invocations, invoked, active_runs,
                   dependent_job>>

\* a unit of the run has failed: update_audit_log("Failed",
\* execution_status="Failed") of line 341 executes sql1 with
\* self.error_message
job_run_failed_sql1 ==
    /\ \E f \in RunFailures :
       \E u \in IF f = Null THEN {NoUnit} ELSE RunUnits :
         /\ RunStep(RunAt("work"), [at |-> "sql2 Failed", error |-> f, unit |-> u])
         /\ trigger_log' = StoreRunRow(trigger_log, "Failed", RunErrorMessage(f))
         /\ duplicate_row' = StoreRunRow(duplicate_row, "Failed", RunErrorMessage(f))
    /\ UNCHANGED <<jobVars, published, log_rows, invocations, invoked, active_runs,
                   dependent_job>>

\* the run has failed with self.error_message not assigned (fetch_pending_sps
\* has raised, or the submissions of the first unit): formatting sql1 raises
\* in both calls of update_audit_log, no statement is executed, and main is
\* at send_sns_message("Failed", ["Unexpected error"]) of its except clause
job_run_failed_unwritten ==
    /\ RunStep(RunAt("work"), RunAt("sns Unexpected"))
    /\ UNCHANGED <<jobVars, published, rowVars, invocations, invoked, active_runs,
                   dependent_job>>

\* sql2 of an update_audit_log call: UPDATE audit.Master_Data_For_IRR SET
\* status (Completed after Finished, Failed after Failed); after the call
\* of line 341 [self.failed_sp_entry] raises when the attribute has no value
job_run_sql2 ==
    /\ \E p \in RunPhases :
         /\ p.at \in {"sql2 Completed", "sql2 Failed", "sql2 again"}
         /\ RunStep(p, IF p.at = "sql2 Completed" THEN RunAt("sns Succeeded")
                       ELSE IF p.at = "sql2 again" THEN RunAt("sns Unexpected")
                       ELSE IF p.error = Null
                            THEN [at |-> "sql1 again", error |-> p.error, unit |-> NoUnit]
                       ELSE [at |-> "sns Failed", error |-> p.error, unit |-> p.unit])
         /\ master' = [master EXCEPT !.status = IF p.at = "sql2 Completed"
                                                THEN "Completed" ELSE "Failed"]
    /\ UNCHANGED <<jobOwnVars, published, rowVars, invocations, invoked, active_runs,
                   dependent_job>>

\* send_sns_message("Failed", [self.failed_sp_entry]) of line 342, then the
\* raise of line 345
job_run_publish_failed ==
    /\ \E p \in RunPhases :
         /\ p.at = "sns Failed"
         /\ RunStep(p, [at |-> "sql1 again", error |-> p.error, unit |-> NoUnit])
         /\ RunPublish(StatusMsg("Failed", <<RunFailedEntry(p.error, p.unit)>>))
    /\ UNCHANGED <<jobVars, rowVars, invocations, invoked, active_runs, dependent_job>>

\* the exception has reached the except clause of main:
\* update_audit_log("Failed", execution_status="Failed") of line 355 executes
\* sql1 with the same self.error_message
job_run_failed_sql1_again ==
    /\ \E p \in RunPhases :
         /\ p.at = "sql1 again"
         /\ RunStep(p, RunAt("sql2 again"))
         /\ trigger_log' = StoreRunRow(trigger_log, "Failed", RunErrorMessage(p.error))
         /\ duplicate_row' = StoreRunRow(duplicate_row, "Failed", RunErrorMessage(p.error))
    /\ UNCHANGED <<jobVars, published, log_rows, invocations, invoked, active_runs,
                   dependent_job>>

\* send_sns_message("Failed", ["Unexpected error"]) of line 356
job_run_publish_unexpected ==
    /\ RunStep(RunAt("sns Unexpected"), RunAt("exit"))
    /\ RunPublish(StatusMsg("Failed", <<UnexpectedError>>))
    /\ UNCHANGED <<jobVars, rowVars, invocations, invoked, active_runs, dependent_job>>

\* send_sns_message("Succeeded"): the status publish; the user-facing
\* publish follows when it is accepted
job_run_publish_succeeded ==
    /\ \E accepted \in SnsAccepts :
         IF accepted
         THEN /\ RunStep(RunAt("sns Succeeded"), RunAt("sns user"))
              /\ published' = Append(published, StatusMsg("Succeeded", <<>>))
         ELSE /\ RunStep(RunAt("sns Succeeded"), RunAt("exit"))
              /\ UNCHANGED published
    /\ UNCHANGED <<jobVars, rowVars, invocations, invoked, active_runs, dependent_job>>

\* the user-facing publish of send_sns_message("Succeeded")
job_run_publish_user ==
    /\ RunStep(RunAt("sns user"), RunAt("exit"))
    /\ RunPublish(UserMsg)
    /\ UNCHANGED <<jobVars, rowVars, invocations, invoked, active_runs, dependent_job>>

\* main returns or re-raises: the run ends
job_run_ends ==
    /\ RunStep(RunAt("exit"), EndedRun)
    /\ active_runs' = active_runs - 1
    /\ UNCHANGED <<jobVars, published, rowVars, invocations, invoked, dependent_job>>

\* the trigger of the other region (the same handler): JobRuns[0] of its
\* get_job_runs for the job of this region, the run started last, is not
\* STARTING/RUNNING/STOPPING
dependent_trigger_checks ==
    /\ dependent_job = "idle"
    /\ last_run = EndedRun
    /\ dependent_job' = "checked"
    /\ UNCHANGED <<jobVars, published, rowVars, invocations, invoked, runVars>>

\* the trigger of the other region calls start_job_run for its job
dependent_trigger_starts ==
    /\ dependent_job = "checked"
    /\ dependent_job' = "running"
    /\ UNCHANGED <<jobVars, published, rowVars, invocations, invoked, runVars>>

\* the job of the other region ends
dependent_job_ends ==
    /\ dependent_job = "running"
    /\ dependent_job' = "idle"
    /\ UNCHANGED <<jobVars, published, rowVars, invocations, invoked, runVars>>

\* the steps of the executions of the handler after their first statement
lambda_steps ==
    \/ \E i \in Slots : lambda_insert(i)
    \/ \E i \in Slots : lambda_guard(i)
    \/ \E i \in Slots : lambda_dependent_jobs(i)
    \/ \E i \in Slots : lambda_priority_files(i)
    \/ \E i \in Slots : lambda_priority_files_raises(i)
    \/ \E i \in Slots : lambda_publish_started(i)
    \/ \E i \in Slots : lambda_start_job(i)
    \/ \E i \in Slots : lambda_start_job_raises(i)
    \/ \E i \in Slots : lambda_write_submitted(i)
    \/ \E i \in Slots : lambda_cutoff(i)
    \/ \E i \in Slots : lambda_send_sns_message(i)
    \/ \E i \in Slots : lambda_send_sns_message_failed(i)
    \/ \E i \in Slots : lambda_monitor(i)
    \/ \E i \in Slots : lambda_delay_block(i)

\* the steps of the runs of the job
job_run_steps ==
    \/ job_run_initial
    \/ job_run_finished_sql1
    \/ job_run_empty_list
    \/ job_run_failed_sql1
    \/ job_run_failed_unwritten
    \/ job_run_sql2
    \/ job_run_publish_failed
    \/ job_run_failed_sql1_again
    \/ job_run_publish_unexpected
    \/ job_run_publish_succeeded
    \/ job_run_publish_user
    \/ job_run_ends

\* the steps of the trigger and the job of the other region
dependent_steps ==
    \/ dependent_trigger_checks
    \/ dependent_trigger_starts
    \/ dependent_job_ends

NextTrigger ==
    \/ \E i \in Slots : lambda_handler_begin(i)
    \/ lambda_steps
    \/ job_run_steps
    \/ dependent_steps

SpecTrigger == InitTrigger /\ [][NextTrigger]_vars

\* the handler invoked sequentially: an execution begins when no other one
\* is running (the runs of the job and the other region go on as before)
lambda_handler_begin_alone(i) ==
    /\ \A j \in Slots : invocations[j].pc = "idle"
    /\ lambda_handler_begin(i)

NextTriggerSequential ==
    \/ \E i \in Slots : lambda_handler_begin_alone(i)
    \/ lambda_steps
    \/ job_run_steps
    \/ dependent_steps

SpecTriggerSequential == InitTrigger /\ [][NextTriggerSequential]_vars

\* ---------------------------------------------------------- legacy scripts
\* sc360-reportrefresh-dev-emea.py and sc360-BMT-reportrefresh-dev-ams.py,
\* __main__: the exec_order values are selected and sorted, and for each of
\* them the row with that exec_order is looked up, its procedure is called
\* and polled to a terminal status; the two audit updates and the
\* notification follow the loop.

classOwnVars == <<cfgVars, pc, ret, stored_procedures, idx, success, outcome, execVars,
                  selfVars, uaVars, fetch_attempt, store_rejected, sns_args, publish_errors,
                  histVars, obsVars, engVars>>
classVars == <<classOwnVars, trigger_log, master, published>>

\* the class-based job and the SPDST trigger are not running; the store
\* holds the row of the day of the script's report source
NothingElseRuns ==
    /\ job = "SPDST"
    /\ RETRY_LIMIT = 1
    /\ pc = "not started"
    /\ ret = "none"
    /\ stored_procedures = <<>>
    /\ idx = 0
    /\ success = FALSE
    /\ outcome = "running"
    /\ retries = 0
    /\ query_status = "SUBMITTED"
    /\ response_error = NoErrorKey
    /\ polls = 0
    /\ error_message = Unset
    /\ failed_sp_entry = NoEntry
    /\ ua_args = [status |-> "none", execution_status |-> "None", is_initial |-> FALSE]
    /\ ua_stmt = "none"
    /\ ua_attempt = 1
    /\ fetch_attempt = 1
    /\ store_rejected = FALSE
    /\ sns_args = [status |-> "none", failed_sps |-> <<>>]
    /\ published = <<>>
    /\ publish_errors = 0
    /\ submitted = <<>>
    /\ attempts = <<>>
    /\ results = <<>>
    /\ last_error = Unset
    /\ calls = <<>>
    /\ audit_exhausted = FALSE
    /\ events = <<>>
    /\ abandoned = 0
    /\ invocations = [i \in Slots |-> IdleInvocation]
    /\ invoked = 0
    /\ dependent_job = "idle"
    /\ duplicate_row = NoRow
    /\ job_runs = NoRuns

\* orderlist.sort()
RECURSIVE InsertOrder(_, _)
InsertOrder(sorted, x) ==
    IF sorted = <<>> THEN <<x>>
    ELSE IF sorted[1] <= x THEN <<sorted[1]>> \o InsertOrder(Tail(sorted), x)
         ELSE <<x>> \o sorted

RECURSIVE SortOrders(_)
SortOrders(order) ==
    IF order = <<>> THEN <<>>
    ELSE InsertOrder(SortOrders(SubSeq(order, 1, Len(order) - 1)), order[Len(order)])

\* the rows of audit.sc360_reportrefresh the WHERE clause of the script
\* selects, in the order the store returns them: up to MaxUnits rows, each
\* with an exec_order in 1..MaxUnits (two rows may share one)
LegacyTables(script) ==
    UNION { { [k \in 1..n |-> [stored_procedure_name |-> SPNames[k],
                               file_datasource |-> ds[k],
                               exec_order |-> eo[k]]] :
                ds \in [1..n -> { d \in DataSources : Selected(script, d) }],
                eo \in [1..n -> 1..MaxUnits] } :
            n \in 0..MaxUnits }

\* response_data['records'] of: select ... where exec_order = '{orderID}'.
\* orderID is float(row[0]['stringValue']) written back with format();
\* the store compares the literal with the numeric column by value, so
\* 1 -> 1.0 -> '1.0' selects the rows whose exec_order is 1
RecordsOf(table, orderID) == SelectSeq(table, LAMBDA r : r.exec_order = orderID)

\* x = Error_Message.split(':'); x[1] (IndexError when there is no colon)
SecondField(error_msg) ==
    LET first == CHOOSE i \in 1..Len(error_msg) :
                     /\ error_msg[i] = ":"
                     /\ \A j \in 1..(i-1) : error_msg[j] # ":"
        rest == SubSeq(error_msg, first + 1, Len(error_msg))
    IN IF ":" \in Range(rest)
       THEN SubSeq(rest, 1, (CHOOSE i \in 1..Len(rest) :
                                 /\ rest[i] = ":"
                                 /\ \A j \in 1..(i-1) : rest[j] # ":") - 1)
       ELSE rest

\* em = 'Null' (SPDST script), em = 'NULL' (BMT script)
LegacyNull(script) == IF script = "BMT" THEN BmtNull ELSE Null

\* the FAILED branch that ends with break: always in the BMT script, for
\* file_source == 'SPDST' in the SPDST script
LegacyBreaks(script, file_source) == script = "BMT" \/ file_source = "SPDST"

\* failedsps.append({...}): the SPDST script names the procedure and its
\* data source for file_source == 'SPDST', otherwise the query ('call ' +
\* curspname) with 'SPDST/Others'; the BMT script names the query with 'BMT'
LegacyFailure(l, Error_Message) ==
    [name |-> IF l.script = "SPDST" /\ l.file_source = "SPDST"
              THEN <<l.curspname>> ELSE <<"call ", l.curspname>>,
     error |-> Error_Message,
     data_source |-> IF l.script = "BMT" THEN "BMT"
                     ELSE IF l.file_source = "SPDST" THEN "SPDST" ELSE "SPDST/Others",
     region |-> reportregionname]

\* except Exception as e: em = 'error'; stat = 'Failed' (the BMT script also
\* sets execution_status = 'Failed'); the for loop goes on
LegacyExcept(l) ==
    [l EXCEPT !.em = <<"error">>,
              !.stat = "Failed",
              !.execution_status = IF l.script = "BMT" THEN "Failed" ELSE @,
              !.first_failure = IF @ = 0 THEN Len(l.submitted) ELSE @,
              !.i = @ + 1,
              !.pc = "for"]

\* for every row of the region in Master_Data_For_IRR the BMT trigger
\* computes status (297-310) and stores it (311-313): with actual_start_time
\* on the day of expected_start the status follows the time (timing is
\* "before", "at" or "after" expect_sdt), otherwise it is 'Null'
MasterStatusOf(started_on_expected_day, timing, status) ==
    IF started_on_expected_day
    THEN IF timing \in {"before", "at"} /\ status = "Null" THEN "Yet to start"
         ELSE IF timing \in {"before", "at"} /\ status = "Completed" THEN "Completed"
         ELSE IF timing \in {"at", "after"} /\ status # "Completed" THEN "Delay"
         ELSE IF timing \in {"at", "after"} /\ status = "Completed" THEN "Completed"
         ELSE status
    ELSE "Null"

\* the script runs as the job its trigger has started: the row of the day is
\* Submitted ('NA' from the SPDST trigger, 'NULL' from the BMT trigger) and
\* the master row has no start time yet (the BMT trigger has set its status)
InitLegacy ==
    /\ NothingElseRuns
    /\ bmt_trigger = IdleBmtTrigger
    /\ log_rows = 1
    /\ active_runs = 1
    /\ last_run = FollowedRun
    /\ legacy \in UNION { { [IdleLegacy EXCEPT !.script = script, !.pc = "start",
                                               !.table = table] :
                              table \in LegacyTables(script) } :
                          script \in Jobs }
    /\ trigger_log = [execution_status |-> "Submitted",
                      error_message |-> IF legacy.script = "BMT" THEN BmtNull ELSE NA,
                      actual_end_time |-> "unset"]
    /\ master = [status |-> IF legacy.script = "BMT"
                            THEN MasterStatusOf(FALSE, "before", "Scheduled")
                            ELSE "Scheduled",
                 actual_start_time |-> "unset"]

legacyRest == <<classOwnVars, invocations, invoked, log_rows, dependent_job, duplicate_row,
                job_runs, bmt_trigger>>
legacyRun == <<active_runs, last_run>>

\* update audit.Master_Data_For_IRR set actual_start_time, status='InProgress'
\* (outside every try: an error of the store ends the script)
legacy_start ==
    /\ legacy.pc = "start"
    /\ \E raised \in BOOLEAN :
         IF raised
         THEN /\ legacy' = [legacy EXCEPT !.pc = "store error"]
              /\ UNCHANGED master
         ELSE /\ master' = [status |-> "InProgress", actual_start_time |-> "set"]
              /\ legacy' = [legacy EXCEPT !.pc = "select"]
    /\ UNCHANGED <<legacyRest, legacyRun, trigger_log, published>>

\* select exec_order ... (outside every try); orderlist.sort();
\* failedsps = []; execution_status = 'Finished'
legacy_select_exec_order ==
    /\ legacy.pc = "select"
    /\ \E raised \in BOOLEAN :
         legacy' = IF raised
                   THEN [legacy EXCEPT !.pc = "store error"]
                   ELSE [legacy EXCEPT
                            !.orderlist = SortOrders([k \in 1..Len(legacy.table) |->
                                                         legacy.table[k].exec_order]),
                            !.failedsps = <<>>,
                            !.execution_status = "Finished",
                            !.i = 1,
                            !.pc = "for"]
    /\ UNCHANGED <<legacyRest, legacyRun, trigger_log, master, published>>

\* the select of the row of orderID raises: the except clause of the loop
\* body, with no procedure called
legacy_lookup_raises ==
    /\ legacy.pc = "for"
    /\ legacy.i <= Len(legacy.orderlist)
    /\ legacy' = [LegacyExcept(legacy) EXCEPT !.first_failure = legacy.first_failure]
    /\ UNCHANGED <<legacyRest, legacyRun, trigger_log, master, published>>

\* the row of orderID is looked up (records[0]) and its procedure is called:
\* redshiftclient.execute_statement returns a query id
legacy_execute_statement_ok ==
    /\ legacy.pc = "for"
    /\ legacy.i <= Len(legacy.orderlist)
    /\ LET record == RecordsOf(legacy.table, legacy.orderlist[legacy.i])[1] IN
       legacy' = [legacy EXCEPT
                     !.curspname = record.stored_procedure_name,
                     !.file_source = record.file_datasource,
                     !.submitted = Append(@, record.stored_procedure_name),
                     !.pc = "poll"]
    /\ UNCHANGED <<legacyRest, legacyRun, trigger_log, master, published>>

\* redshiftclient.execute_statement raises: the except clause of the loop body
legacy_execute_statement_raise ==
    /\ legacy.pc = "for"
    /\ legacy.i <= Len(legacy.orderlist)
    /\ LET record == RecordsOf(legacy.table, legacy.orderlist[legacy.i])[1] IN
       legacy' = LegacyExcept([legacy EXCEPT
                                  !.curspname = record.stored_procedure_name,
                                  !.file_source = record.file_datasource,
                                  !.submitted = Append(@, record.stored_procedure_name)])
    /\ UNCHANGED <<legacyRest, legacyRun, trigger_log, master, published>>

\* the poll loop ends with a terminal status; the branches on FAILED
legacy_describe_terminal ==
    /\ legacy.pc = "poll"
    /\ \E s \in Terminal, Error_Message \in EngineErrors \cup {PlainError} :
         legacy' =
             IF s = "FAILED"
             THEN IF ":" \notin Range(Error_Message)
                  THEN LegacyExcept(legacy)
                  ELSE [legacy EXCEPT
                           !.em = SecondField(Error_Message),
                           !.failedsps = Append(@, LegacyFailure(legacy, Error_Message)),
                           !.execution_status = "Failed",
                           !.stat = "Failed",
                           !.first_failure = IF @ = 0 THEN Len(legacy.submitted) ELSE @,
                           !.i = IF LegacyBreaks(legacy.script, legacy.file_source)
                                 THEN @ ELSE @ + 1,
                           !.pc = IF LegacyBreaks(legacy.script, legacy.file_source)
                                  THEN "end" ELSE "for"]
             ELSE [legacy EXCEPT
                      !.em = LegacyNull(legacy.script),
                      !.stat = "Completed",
                      !.i = @ + 1,
                      !.pc = "for"]
    /\ UNCHANGED <<legacyRest, legacyRun, trigger_log, master, published>>

\* after the loop: update audit.sc360_reportrefreshtrigger_log set
\* execution_status, actual_end_time, error_message.  Formatting the
\* statement reads em, a NameError when the loop never assigned it; the
\* call is outside every try, so that an error of the store ends the script
legacy_update_run_row ==
    /\ \/ legacy.pc = "end"
       \/ legacy.pc = "for" /\ legacy.i > Len(legacy.orderlist)
    /\ IF legacy.em = Unset
       THEN /\ legacy' = [legacy EXCEPT !.pc = "crashed"]
            /\ UNCHANGED trigger_log
       ELSE \E raised \in BOOLEAN :
                IF raised
                THEN /\ legacy' = [legacy EXCEPT !.pc = "store error"]
                     /\ UNCHANGED trigger_log
                ELSE /\ trigger_log' = StoreRunRow(trigger_log, legacy.execution_status,
                                                   legacy.em)
                     /\ legacy' = [legacy EXCEPT
                                      !.written.execution_status = legacy.execution_status,
                                      !.written.error_message = legacy.em,
                                      !.pc = "master"]
    /\ UNCHANGED <<legacyRest, legacyRun, master, published>>

\* update audit.Master_Data_For_IRR set status = stat (an error of the
\* store ends the script with the run row written and the master row as it was)
legacy_update_master ==
    /\ legacy.pc = "master"
    /\ \E raised \in BOOLEAN :
         IF raised
         THEN /\ legacy' = [legacy EXCEPT !.pc = "store error"]
              /\ UNCHANGED master
         ELSE /\ master' = [master EXCEPT !.status = legacy.stat]
              /\ legacy' = [legacy EXCEPT !.written.status = legacy.stat, !.pc = "notify"]
    /\ UNCHANGED <<legacyRest, legacyRun, trigger_log, published>>

\* the status message of send_sns_message(env, failedsps, status, region)
LegacyStatusMsg(l) ==
    [kind |-> "status", topic |-> "sns_arn",
     status |-> IF Len(l.failedsps) > 0 THEN "Failed" ELSE "Succeeded",
     failed_sps |-> l.failedsps]

\* if len(failedsps) > 0: send_sns_message(..., "Failed") else: (...,
\* "Succeeded"): sns.publish of the status message, outside every try (an
\* exception of sns ends the script)
legacy_send_sns_message ==
    /\ legacy.pc = "notify"
    /\ \E raised \in BOOLEAN :
         IF raised
         THEN /\ legacy' = [legacy EXCEPT !.pc = "sns error"]
              /\ UNCHANGED published
         ELSE /\ published' = Append(published, LegacyStatusMsg(legacy))
              /\ legacy' = [legacy EXCEPT
                               !.notified = LegacyStatusMsg(legacy).status,
                               !.pc = IF Len(legacy.failedsps) = 0
                                      THEN "notify users" ELSE "done"]
    /\ UNCHANGED <<legacyRest, legacyRun, trigger_log, master>>

\* if len(Error_Dict) == 0: sns.publish of the message to users_sns_arn
legacy_publish_user ==
    /\ legacy.pc = "notify users"
    /\ \E raised \in BOOLEAN :
         IF raised
         THEN /\ legacy' = [legacy EXCEPT !.pc = "sns error"]
              /\ UNCHANGED published
         ELSE /\ published' = Append(published, UserMsg)
              /\ legacy' = [legacy EXCEPT !.pc = "done"]
    /\ UNCHANGED <<legacyRest, legacyRun, trigger_log, master>>

\* the script has returned or has ended with an exception: the run of the
\* job ends
legacy_ends ==
    /\ legacy.pc \in {"done", "crashed", "store error", "sns error"}
    /\ active_runs = 1
    /\ active_runs' = 0
    /\ last_run' = EndedRun
    /\ UNCHANGED <<legacyRest, legacy, trigger_log, master, published>>

NextLegacy ==
    \/ legacy_start
    \/ legacy_select_exec_order
    \/ legacy_lookup_raises
    \/ legacy_execute_statement_ok
    \/ legacy_execute_statement_raise
    \/ legacy_describe_terminal
    \/ legacy_update_run_row
    \/ legacy_update_master
    \/ legacy_send_sns_message
    \/ legacy_publish_user
    \/ legacy_ends

SpecLegacy == InitLegacy /\ [][NextLegacy]_vars

\* ------------------------------------------------ BMT trigger, cut-off time
\* sc360-uat-reportrefreshtrigger-emea.py, lambda_handler, invoked
\* sequentially: an execution begins when the one before has ended.  Each
\* execution reads the time of day d when it begins; at line 326 d is
\* compared with the cut-off start plus the extra allowance.  Each call to
\* a service is a step; the runs the executions start are not followed.

\* int(d.hour) >= (int(cutoff_strt_hour) + int(extraHour)) and
\* int(d.minute) >= (int(cutoff_strt_min) + int(extraMin))
PastAllowance(hour, minute, cutoff_strt_hour, extraHour, cutoff_strt_min, extraMin) ==
    /\ hour >= cutoff_strt_hour + extraHour
    /\ minute >= cutoff_strt_min + extraMin

\* snstimeperiod == 'YES': (int(d.hour) >= int(cutoff_strt_hour) and
\* int(d.minute) >= int(cutoff_strt_min)) and int(d.hour) <= int(cutoff_end_hour)
SnsTimePeriod(hour, minute, cutoff_strt_hour, cutoff_strt_min, cutoff_end_hour) ==
    /\ hour >= cutoff_strt_hour /\ minute >= cutoff_strt_min
    /\ hour <= cutoff_end_hour

\* if pfcount >= len(priorityfiles):
BmtMayStart(pfcount, priorityfiles) == pfcount >= priorityfiles

\* the message of sns.publish before start_job_run
BmtStartedMsg(branch) ==
    TriggerMsg(IF branch = "start without priority files"
               THEN "BMT report refresh is started without Priority files"
               ELSE "BMT report refresh is started")

\* the row INSERTed by the else branch of the BMT handler
BmtYetToStartRow == [execution_status |-> "Yet to start", error_message |-> BmtYetToStart,
                     actual_end_time |-> "unset"]

\* no row of the day and no execution yet; the environment values are fixed
\* for the day
InitCutoff ==
    /\ NothingElseRuns
    /\ legacy = IdleLegacy
    /\ active_runs = 0
    /\ last_run = EndedRun
    /\ trigger_log = NoRow
    /\ log_rows = 0
    /\ master = [status |-> "Scheduled", actual_start_time |-> "unset"]
    /\ bmt_trigger \in [cutoff_strt_hour : CutoffStartHours,
                        cutoff_strt_min : CutoffStartMinutes,
                        cutoff_end_hour : CutoffEndHours,
                        extraHour : ExtraHours, extraMin : ExtraMinutes,
                        execution : {IdleBmtExecution}]

cutoffRest == <<classOwnVars, invocations, dependent_job, duplicate_row, legacy>>

BmtAt(pc_) == bmt_trigger.execution.pc = pc_
BmtGoes(pc_) == [bmt_trigger EXCEPT !.execution.pc = pc_]
BmtEnds == [bmt_trigger EXCEPT !.execution = IdleBmtExecution]

\* d = datetime.datetime.utcnow(); select count(*) ...; if E[0][0] > 0: (go
\* on to the guard) else: (go on to the INSERT, which does not read d)
bmt_handler_begin ==
    /\ BmtAt("idle")
    /\ invoked < MaxInvocations
    /\ invoked' = invoked + 1
    /\ \E hour \in 0..23, minute \in 0..59, raised \in StoreRaises :
         bmt_trigger' =
             IF raised THEN bmt_trigger
             ELSE IF RowExists(log_rows)
             THEN [bmt_trigger EXCEPT !.execution.pc = "guard",
                                      !.execution.hour = hour,
                                      !.execution.minute = minute]
             ELSE BmtGoes("insert")
    /\ UNCHANGED <<cutoffRest, master, trigger_log, log_rows, published, runVars>>

\* else: INSERT INTO audit.sc360_reportrefreshtrigger_log ... 'Yet to start'
\* and commit; when the store raises the execution ends with no row inserted
bmt_insert ==
    /\ BmtAt("insert")
    /\ \E raised \in StoreRaises :
         IF raised
         THEN UNCHANGED <<trigger_log, log_rows>>
         ELSE /\ trigger_log' = BmtYetToStartRow
              /\ log_rows' = log_rows + 1
    /\ bmt_trigger' = BmtEnds
    /\ UNCHANGED <<cutoffRest, master, invoked, published, runVars>>

\* select execution_status ...; if Refreshcount != 0 and
\* len(execution_status) > 0 and execution_status[0][0] in
\* ('Finished','Submitted'): sys.exit(e)
bmt_guard ==
    /\ BmtAt("guard")
    /\ \E raised \in StoreRaises :
         bmt_trigger' = IF raised \/ AlreadyTriggered(trigger_log.execution_status)
                        THEN BmtEnds
                        ELSE BmtGoes("dependents")
    /\ UNCHANGED <<cutoffRest, master, trigger_log, log_rows, invoked, published, runVars>>

\* get_job_runs of dependent_job1 and dependent_job2 and
\* ['JobRuns'][0]['JobRunState'] of the answers; a call that raises, or a
\* job with no run, ends the execution
bmt_dependent_jobs ==
    /\ BmtAt("dependents")
    /\ \E answered \in BOOLEAN, running \in BOOLEAN :
         bmt_trigger' = IF ~answered THEN BmtEnds
                        ELSE [bmt_trigger EXCEPT !.execution.pc = "master",
                                                 !.execution.dependent_running = running]
    /\ UNCHANGED <<cutoffRest, master, trigger_log, log_rows, invoked, published, runVars>>

\* for row in fetch_results: up to the row of Master_Data_For_IRR the model
\* follows: its expected times are stored, and its status is computed and
\* stored (311-313); a statement that raises before the UPDATE of line 311,
\* for this row or for a row before it, ends the execution. The execution
\* stays in the loop
bmt_master_rows ==
    /\ BmtAt("master")
    /\ \E raised \in StoreRaises, same_day \in BOOLEAN, timing \in {"before", "at", "after"} :
         IF raised
         THEN /\ bmt_trigger' = BmtEnds
              /\ UNCHANGED master
         ELSE /\ master' = [master EXCEPT !.status =
                               MasterStatusOf(master.actual_start_time = "set" /\ same_day,
                                              timing, master.status)]
              /\ bmt_trigger' = BmtGoes("master rest")
    /\ UNCHANGED <<cutoffRest, trigger_log, log_rows, invoked, published, runVars>>

\* the rows of fetch_results after that row (a statement that raises for one
\* of them ends the execution, with the status of line 311 stored); then
\* if status_dependent_job2 in [...] or status_dependent_job1 in [...]:
bmt_master_rows_rest ==
    /\ BmtAt("master rest")
    /\ \E raised \in StoreRaises :
         bmt_trigger' = IF raised THEN BmtEnds
                        ELSE BmtGoes(IF bmt_trigger.execution.dependent_running
                                     THEN "other region" ELSE "decide")
    /\ UNCHANGED <<cutoffRest, master, trigger_log, log_rows, invoked, published, runVars>>

\* a dependent job is STARTING/RUNNING/STOPPING: Delay when d > join_start
\* (when the UPDATE raises the execution ends without it), then sys.exit
bmt_other_region_running ==
    /\ BmtAt("other region")
    /\ \E is_late \in BOOLEAN :
         \E raised \in IF is_late THEN StoreRaises ELSE {FALSE} :
           trigger_log' = IF raised THEN trigger_log
                          ELSE DelayIfLate(trigger_log, is_late, OtherRegionRunning)
    /\ bmt_trigger' = BmtEnds
    /\ UNCHANGED <<cutoffRest, master, log_rows, invoked, published, runVars>>

\* the if branch of line 326: the job is to be started without a look at the
\* priority files
bmt_start_without_priority_files ==
    /\ BmtAt("decide")
    /\ PastAllowance(bmt_trigger.execution.hour, bmt_trigger.execution.minute,
                     bmt_trigger.cutoff_strt_hour, bmt_trigger.extraHour,
                     bmt_trigger.cutoff_strt_min, bmt_trigger.extraMin)
    /\ bmt_trigger' = [bmt_trigger EXCEPT
                          !.execution.pc = "publish",
                          !.execution.branch = "start without priority files"]
    /\ UNCHANGED <<cutoffRest, master, trigger_log, log_rows, invoked, published, runVars>>

\* the else branch: the priority files of the region are selected and counted
bmt_check_priority_files ==
    /\ BmtAt("decide")
    /\ ~PastAllowance(bmt_trigger.execution.hour, bmt_trigger.execution.minute,
                      bmt_trigger.cutoff_strt_hour, bmt_trigger.extraHour,
                      bmt_trigger.cutoff_strt_min, bmt_trigger.extraMin)
    /\ bmt_trigger' = [bmt_trigger EXCEPT !.execution.pc = "files",
                                          !.execution.branch = "priority files"]
    /\ UNCHANGED <<cutoffRest, master, trigger_log, log_rows, invoked, published, runVars>>

\* if pfcount >= len(priorityfiles): the job is to be started
bmt_files_ready ==
    /\ BmtAt("files")
    /\ \E c \in PriorityFileCounts(MaxPriorityFiles) :
           BmtMayStart(c.pfcount, MaxPriorityFiles)
    /\ bmt_trigger' = BmtGoes("publish")
    /\ UNCHANGED <<cutoffRest, master, trigger_log, log_rows, invoked, published, runVars>>

\* where an execution goes after the Delay UPDATE of the cut-off branch:
\* if len(filesnotreceived) > 0: send_sns_message; if len(filesfailed) > 0:
\* send_sns_message_failed; then the handler returns
BmtAfterCutoff(filesnotreceived, filesfailed) ==
    IF filesnotreceived > 0
    THEN [IdleBmtExecution EXCEPT !.pc = "notify missing", !.filesfailed = filesfailed]
    ELSE IF filesfailed > 0
    THEN [IdleBmtExecution EXCEPT !.pc = "notify failure"]
    ELSE IdleBmtExecution

\* elif (pfcount != len(priorityfiles)) and snstimeperiod == 'YES': Delay
\* with the cut-off text when d > join_start (when the UPDATE raises the
\* execution ends there)
bmt_cutoff ==
    /\ BmtAt("files")
    /\ SnsTimePeriod(bmt_trigger.execution.hour, bmt_trigger.execution.minute,
                     bmt_trigger.cutoff_strt_hour, bmt_trigger.cutoff_strt_min,
                     bmt_trigger.cutoff_end_hour)
    /\ \E c \in PriorityFileCounts(MaxPriorityFiles), is_late \in BOOLEAN :
         /\ ~BmtMayStart(c.pfcount, MaxPriorityFiles)
         /\ c.pfcount # MaxPriorityFiles
         /\ \E raised \in IF is_late THEN StoreRaises ELSE {FALSE} :
              IF raised
              THEN /\ bmt_trigger' = BmtEnds
                   /\ UNCHANGED trigger_log
              ELSE /\ trigger_log' = DelayIfLate(trigger_log, is_late, CutOffReached)
                   /\ bmt_trigger' = [bmt_trigger EXCEPT !.execution =
                                         BmtAfterCutoff(c.filesnotreceived, c.filesfailed)]
    /\ UNCHANGED <<cutoffRest, master, log_rows, invoked, published, runVars>>

\* send_sns_message(env, filesnotreceived, process_name, region): sns.publish,
\* outside every try
bmt_send_sns_message ==
    /\ BmtAt("notify missing")
    /\ \E raised \in BOOLEAN :
         IF raised
         THEN /\ bmt_trigger' = BmtEnds
              /\ UNCHANGED published
         ELSE /\ published' = Append(published, TriggerMsg("BMT Priority File Missing"))
              /\ bmt_trigger' = [bmt_trigger EXCEPT !.execution =
                                    BmtAfterCutoff(0, bmt_trigger.execution.filesfailed)]
    /\ UNCHANGED <<cutoffRest, master, trigger_log, log_rows, invoked, runVars>>

\* send_sns_message_failed(env, filesfailed, 'NA', region): sns.publish,
\* outside every try
bmt_send_sns_message_failed ==
    /\ BmtAt("notify failure")
    /\ \E raised \in BOOLEAN :
         published' = IF raised THEN published
                      ELSE Append(published, TriggerMsg("BMT Priority File Failure"))
    /\ bmt_trigger' = BmtEnds
    /\ UNCHANGED <<cutoffRest, master, trigger_log, log_rows, invoked, runVars>>

\* a select of the loop over the priority files raises, or list_objects_v2
\* for a priority file that is not loaded: the execution ends with the
\* exception
bmt_priority_files_raise ==
    /\ BmtAt("files")
    /\ bmt_trigger' = BmtEnds
    /\ UNCHANGED <<cutoffRest, master, trigger_log, log_rows, invoked, published, runVars>>

\* else: when d > join_start, Delay with "PF Missing" and the select of the
\* row (when the UPDATE raises the execution ends without it)
bmt_monitor ==
    /\ BmtAt("files")
    /\ \E c \in PriorityFileCounts(MaxPriorityFiles) :
           ~BmtMayStart(c.pfcount, MaxPriorityFiles)
    /\ ~SnsTimePeriod(bmt_trigger.execution.hour, bmt_trigger.execution.minute,
                      bmt_trigger.cutoff_strt_hour, bmt_trigger.cutoff_strt_min,
                      bmt_trigger.cutoff_end_hour)
    /\ \E is_late \in BOOLEAN :
         \E raised \in IF is_late THEN StoreRaises ELSE {FALSE} :
           trigger_log' = IF raised THEN trigger_log
                          ELSE DelayIfLate(trigger_log, is_late, PFMissing)
    /\ bmt_trigger' = BmtEnds
    /\ UNCHANGED <<cutoffRest, master, log_rows, invoked, published, runVars>>

\* sns.publish(...) of the start message: accepted, or it raises and the
\* execution ends with the exception
bmt_publish ==
    /\ BmtAt("publish")
    /\ \E raised \in BOOLEAN :
         IF raised
         THEN /\ bmt_trigger' = BmtEnds
              /\ UNCHANGED published
         ELSE /\ published' = Append(published, BmtStartedMsg(bmt_trigger.execution.branch))
              /\ bmt_trigger' = [bmt_trigger EXCEPT !.execution =
                                    [IdleBmtExecution EXCEPT !.pc = "start_job_run"]]
    /\ UNCHANGED <<cutoffRest, master, trigger_log, log_rows, invoked, runVars>>

\* glueclient.start_job_run(JobName=glue_job, ...): a run of the job begins
bmt_start_job_run ==
    /\ BmtAt("start_job_run")
    /\ active_runs' = active_runs + 1
    /\ job_runs' = WithRuns(job_runs, RunAt("initial"),
                           RunsAt(job_runs, RunAt("initial")) + 1)
    /\ last_run' = RunAt("initial")
    /\ bmt_trigger' = BmtGoes("update")
    /\ UNCHANGED <<cutoffRest, master, trigger_log, log_rows, invoked, published>>

\* start_job_run raises: the execution ends with the exception
bmt_start_job_run_raises ==
    /\ BmtAt("start_job_run")
    /\ bmt_trigger' = BmtEnds
    /\ UNCHANGED <<cutoffRest, master, trigger_log, log_rows, invoked, published, runVars>>

\* update ... set Actual_Start_time, execution_status = 'Submitted',
\* error_message = 'NULL' and commit, outside every try: when the store
\* raises the execution ends and the row keeps what it held, the run started
bmt_write_submitted ==
    /\ BmtAt("update")
    /\ \E raised \in StoreRaises :
         trigger_log' = IF raised THEN trigger_log
                        ELSE UpdateRow(trigger_log, "Submitted", BmtNull)
    /\ bmt_trigger' = BmtEnds
    /\ UNCHANGED <<cutoffRest, master, log_rows, invoked, published, runVars>>

NextCutoff ==
    \/ bmt_handler_begin
    \/ bmt_insert
    \/ bmt_guard
    \/ bmt_dependent_jobs
    \/ bmt_master_rows
    \/ bmt_master_rows_rest
    \/ bmt_other_region_running
    \/ bmt_start_without_priority_files
    \/ bmt_check_priority_files
    \/ bmt_files_ready
    \/ bmt_cutoff
    \/ bmt_send_sns_message
    \/ bmt_send_sns_message_failed
    \/ bmt_priority_files_raise
    \/ bmt_monitor
    \/ bmt_publish
    \/ bmt_start_job_run
    \/ bmt_start_job_run_raises
    \/ bmt_write_submitted

SpecCutoff == InitCutoff /\ [][NextCutoff]_vars

\* ------------------------------------------------------- notions of the claims
\* position in the work list of the unit called sp_name
PosOf(sp_name) ==
    CHOOSE p \in 1..Len(stored_procedures) : stored_procedures[p].stored_procedure_name = sp_name

\* execute_sp_with_retries has returned for the unit the for loop is at,
\* and attempts holds the attempts of that unit
UnitReturned == Len(results) >= 1 /\ results[Len(results)].unit = idx

LastResult == results[Len(results)]

AllAttempts(kinds) == attempts # <<>> /\ \A i \in 1..Len(attempts) : attempts[i] \in kinds

\* main is on the way to raising
InFailurePath ==
    \/ pc \in {"m_fail_sns", "m_raise", "m_except", "m_except_sns", "m_reraise"}
    \/ /\ pc \in {"ua_entry", "ua_exec", "sns_status", "sns_user"}
       /\ ret \in {"m_fail_sns", "m_raise", "m_except_sns", "m_reraise"}
    \/ outcome = "raised"

FailedStatusMessages ==
    { m \in 1..Len(published) : published[m].kind = "status" /\ published[m].status = "Failed" }

\* ------------------------------------------------------------------- claims
\* C1: fail-fast. Once execute_sp_with_retries has returned failure for the
\* unit at position i, no unit at a position j > i is ever submitted.
C1_FailFast ==
    \A k \in 1..Len(results) :
        ~results[k].ok =>
            \A m \in 1..Len(submitted) : PosOf(submitted[m]) <= results[k].unit

C1_Witness ==
    /\ pc = "done"
    /\ \E k \in 1..Len(results) : ~results[k].ok /\ results[k].unit < Len(stored_procedures)

\* C2: units are submitted in the order fetch_pending_sps returned them (the
\* order of the query's ORDER BY exec_order); the unit at position j is first
\* submitted only after every unit before it was reported successful, and a
\* run that returns has submitted every unit.
C2_InOrder ==
    /\ Len(submitted) <= Len(stored_procedures)
    /\ \A m \in 1..Len(submitted) :
         /\ submitted[m] = stored_procedures[m].stored_procedure_name
         /\ \A i \in 1..(m-1) :
              \E k \in 1..Len(results) : results[k].unit = i /\ results[k].ok
    /\ outcome = "returned" => Len(submitted) = Len(stored_procedures)

C2_Witness ==
    /\ Len(stored_procedures) = 2
    /\ submitted = <<"SP_A", "SP_B">>
    /\ results[1].last = "FINISHED"
    /\ outcome = "returned"

\* C3: a unit whose every attempt ends with status FAILED is submitted
\* exactly RETRY_LIMIT times; execute_sp_with_retries then returns failure
\* and has set the failure record of that unit.
C3_AlwaysFailed ==
    /\ AllAttempts({"FAILED", "PENDING"}) => Len(attempts) <= RETRY_LIMIT
    /\ (UnitReturned /\ AllAttempts({"FAILED"})) =>
          /\ Len(attempts) = RETRY_LIMIT
          /\ ~LastResult.ok
          /\ failed_sp_entry.tag = "entry"
          /\ failed_sp_entry.name = stored_procedures[idx].stored_procedure_name

C3_Witness ==
    /\ UnitReturned
    /\ AllAttempts({"FAILED"})
    /\ RETRY_LIMIT = 2
    /\ Len(attempts) = 2

\* C4: a unit whose first k-1 attempts report FAILED and whose k-th attempt
\* reports FINISHED (k <= RETRY_LIMIT) is submitted exactly k times,
\* execute_sp_with_retries returns success and main moves on to the next
\* element of the work list.
C4_SucceedsOnK ==
    \A k \in 1..Len(attempts) :
        ((\A i \in 1..(k-1) : attempts[i] = "FAILED") /\ attempts[k] = "FINISHED") =>
            /\ Len(attempts) = k
            /\ k <= RETRY_LIMIT
            /\ ~InFailurePath
            /\ pc \notin {"e_while", "e_submit", "c_poll"}
            /\ pc # "e_classify" =>
                  /\ Len(results) >= 1
                  /\ LastResult.ok
                  /\ pc # "m_after" => idx = LastResult.unit + 1

C4_Witness ==
    /\ attempts = <<"FAILED", "FINISHED">>
    /\ pc = "m_for"
    /\ idx = 2
    /\ Len(stored_procedures) = 2

\* C5 (as claimed): an attempt that ends ABORTED is never reported as a
\* success of the unit.
C5_AbortedNeverSuccess ==
    \A k \in 1..Len(results) : results[k].last = "ABORTED" => ~results[k].ok

\* C6: a unit whose attempts each end in FAILED or in a submission exception
\* (never FINISHED) is submitted exactly RETRY_LIMIT times and is then
\* reported as failed: every such attempt uses up one unit of the budget.
C6_ExceptionCountsOnce ==
    /\ AllAttempts({"FAILED", "EXC", "PENDING"}) => Len(attempts) <= RETRY_LIMIT
    /\ (UnitReturned /\ AllAttempts({"FAILED", "EXC"})) =>
          /\ Len(attempts) = RETRY_LIMIT
          /\ ~LastResult.ok
          /\ pc = "done" => outcome = "raised"

C6_Witness ==
    /\ UnitReturned
    /\ attempts = <<"EXC", "FAILED">>
    /\ pc = "done"

\* C7 (as claimed): when a run has failed because a unit exhausted its retry
\* budget, a status notification Failed has been published whose payload
\* holds a failure record with that unit, its data-source tag, the region
\* and the error of its last attempt (no publish having raised).
C7_FailureRecordPublished ==
    (outcome = "raised" /\ publish_errors = 0 /\ UnitReturned /\ ~LastResult.ok) =>
        \E m \in FailedStatusMessages :
            \E e \in 1..Len(published[m].failed_sps) :
                LET entry == published[m].failed_sps[e] IN
                /\ entry.tag = "entry"
                /\ entry.name = stored_procedures[idx].stored_procedure_name
                /\ entry.data_source = DataSourceTag(job, stored_procedures[idx].file_datasource)
                /\ entry.region = reportregionname
                /\ entry.error = last_error

\* C8 (as claimed): a run in which a unit exhausted its budget with FAILED
\* statuses has published exactly one status notification Failed, whose
\* failure list is the record of that unit alone (no publish having raised).
C8_OneFailedNotification ==
    (pc = "done" /\ publish_errors = 0 /\ UnitReturned /\ ~LastResult.ok
       /\ AllAttempts({"FAILED"})) =>
        /\ Cardinality(FailedStatusMessages) = 1
        /\ \A m \in FailedStatusMessages : published[m].failed_sps = <<failed_sp_entry>>

\* C9 (as claimed): the run-level row holds execution_status Failed only with
\* an error_message derived from the error of the last attempt of the failed
\* unit, and the sentinel Null only with Finished.
C9_ErrorMessageOfFailure ==
    /\ trigger_log.execution_status = "Failed" =>
          /\ trigger_log.error_message = SplitError(last_error)
          /\ trigger_log.error_message # Null
    /\ trigger_log.error_message = Null => trigger_log.execution_status = "Finished"

\* C10 (as claimed): a run with an empty work list has written Finished /
\* Completed with the end timestamp and the cleared error to the audit rows
\* when main returns (the audit store having accepted every statement and
\* no publish having raised).
C10_EmptyListRecordedFinished ==
    (outcome = "returned" /\ stored_procedures = <<>> /\ ~store_rejected
       /\ publish_errors = 0) =>
        /\ trigger_log.execution_status = "Finished"
        /\ trigger_log.actual_end_time = "set"
        /\ trigger_log.error_message = Null
        /\ master.status = "Completed"

\* ------------------------------------------- notions of the claims C11..C17
\* fetch_pending_sps has returned, and it returned no rows
EmptyWorkList == idx >= 1 /\ stored_procedures = <<>>

\* fetch_pending_sps has returned and execute_sp_with_retries has returned
\* success for every element of the work list
AllUnitsOk ==
    /\ idx >= 1
    /\ Len(results) = Len(stored_procedures)
    /\ \A k \in 1..Len(results) : results[k].ok

SomeUnitFailed == \E k \in 1..Len(results) : ~results[k].ok

AuditCall(status) == [fn |-> "update_audit_log", status |-> status]
SnsCall(status) == [fn |-> "send_sns_message", status |-> status]

\* C11: with an empty work list main submits nothing, publishes no status
\* notification Failed and does not raise; when it has ended (no publish
\* having raised) it has returned and has published exactly one status
\* notification Succeeded followed by exactly one user-facing success notice.
C11_EmptyList ==
    EmptyWorkList =>
        /\ submitted = <<>>
        /\ FailedStatusMessages = {}
        /\ outcome # "raised"
        /\ Len(published) <= 2
        /\ (pc = "done" /\ publish_errors = 0) =>
              /\ outcome = "returned"
              /\ published = <<StatusMsg("Succeeded", <<>>), UserMsg>>

C11_Witness ==
    /\ EmptyWorkList
    /\ pc = "done"
    /\ publish_errors = 0
    /\ Len(published) = 2

\* C12 (as claimed): the run-level row holds Finished only when every unit
\* was run and the last attempt of each ended FINISHED; a run that has ended
\* with every unit FINISHED has written Finished, and a run that has ended
\* with a unit whose last attempt is not FINISHED has written Failed (the
\* work list not being empty, the audit store having accepted every statement).
C12_FinishedIffAllFinished ==
    /\ trigger_log.execution_status = "Finished" =>
          /\ Len(results) = Len(stored_procedures)
          /\ \A k \in 1..Len(results) : results[k].last = "FINISHED"
    /\ (pc = "done" /\ ~store_rejected /\ stored_procedures # <<>>
          /\ Len(results) = Len(stored_procedures)
          /\ \A k \in 1..Len(results) : results[k].last = "FINISHED") =>
          trigger_log.execution_status = "Finished"
    /\ (pc = "done" /\ ~store_rejected
          /\ \E k \in 1..Len(results) : results[k].last # "FINISHED") =>
          trigger_log.execution_status = "Failed"

\* C13: when a unit has exhausted its retry budget, main calls
\* update_audit_log with Failed, after it send_sns_message with Failed, and
\* raises only after both; a run that ends after such a unit has raised, and
\* a run in which every unit succeeded has returned.
C13_AuditNotifyRaise ==
    /\ \A j \in 1..Len(calls) :
          calls[j] = SnsCall("Failed") =>
              \E i \in 1..(j-1) : calls[i] = AuditCall("Failed")
    /\ (SomeUnitFailed /\ (pc \in {"m_raise", "m_reraise"} \/ outcome = "raised")) =>
          \E i, j \in 1..Len(calls) :
              /\ i < j
              /\ calls[i] = AuditCall("Failed")
              /\ calls[j] = SnsCall("Failed")
    /\ (pc = "done" /\ SomeUnitFailed) => outcome = "raised"
    /\ (pc = "done" /\ AllUnitsOk) => outcome = "returned"

C13_Witness ==
    /\ outcome = "raised"
    /\ SomeUnitFailed
    /\ failed_sp_entry # NoEntry
    /\ calls[2] = AuditCall("Failed")
    /\ calls[3] = SnsCall("Failed")

\* C14 (as claimed): a run that has ended with the error raised has published
\* no message to the end-user topic (users_sns_arn).
C14_NoUserTopicOnFailure ==
    outcome = "raised" =>
        \A m \in 1..Len(published) : published[m].topic # users_sns_arn

\* C15: whether or not an audit write was given up after max_retries
\* attempts, a run that has ended (no publish having raised) has submitted
\* the units up to the last one run, in the order of the work list, has
\* returned exactly when every unit succeeded and raised otherwise, and has
\* published the notifications that the results of the units determine.
C15_AuditFailureChangesNothing ==
    (pc = "done" /\ publish_errors = 0) =>
        /\ submitted = [m \in 1..Len(results) |-> stored_procedures[m].stored_procedure_name]
        /\ outcome = IF AllUnitsOk THEN "returned" ELSE "raised"
        /\ published =
              IF AllUnitsOk
              THEN <<StatusMsg("Succeeded", <<>>), UserMsg>>
              ELSE IF failed_sp_entry = NoEntry
                   THEN <<StatusMsg("Failed", <<UnexpectedError>>)>>
                   ELSE <<StatusMsg("Failed", <<failed_sp_entry>>),
                          StatusMsg("Failed", <<UnexpectedError>>)>>

C15_Witness ==
    /\ pc = "done"
    /\ publish_errors = 0
    /\ audit_exhausted
    /\ outcome = "returned"
    /\ Len(results) = 2
    /\ master.status = "Scheduled"

\* C16 (as claimed): when an audit write was given up after max_retries
\* attempts, what main hands to its caller differs from what it hands over
\* when every audit write succeeded; a run in which every unit succeeded
\* then does not end with the plain return of True (no publish having raised).
C16_ExhaustionSurfaced ==
    (pc = "done" /\ audit_exhausted /\ AllUnitsOk /\ publish_errors = 0) =>
        outcome # "returned"

\* C17 (as claimed): when main has returned or raised, every unit was
\* submitted at most RETRY_LIMIT times and the run-level row holds Finished
\* or Failed (the audit store having accepted every statement and no
\* publish having raised).
C17_EndsWithStatusWritten ==
    pc = "done" =>
        /\ Len(attempts) <= RETRY_LIMIT
        /\ (~store_rejected /\ publish_errors = 0) =>
              trigger_log.execution_status \in {"Finished", "Failed"}

\* ------------------------------------------------ claims on the trigger
\* C18: duplicate-run guard. The step of an execution of the trigger that
\* reads execution_status Submitted or Finished at the guard ends the
\* execution: no start_job_run call is made (no run begins), no audit row is
\* written and no message is published; this holds for every one of the
\* repeated invocations.
C18_DuplicateRunGuard ==
    [][ \A i \in Slots :
          (invocations[i].pc = "guard"
           /\ invocations'[i] # invocations[i]
           /\ trigger_log.execution_status \in {"Submitted", "Finished"}) =>
              /\ invocations'[i].pc = "idle"
              /\ UNCHANGED <<trigger_log, duplicate_row, log_rows, active_runs, job_runs,
                             last_run, master, published>> ]_vars

C18_Witness ==
    /\ invoked = MaxInvocations
    /\ active_runs = 1
    /\ trigger_log.execution_status = "Submitted"
    /\ \E i \in Slots : invocations[i].seen = "Submitted" /\ invocations[i].pc = "idle"

\* C19 (as claimed): the execution_status of the run-level row never changes
\* once it is Finished or Failed, and never becomes Delay once it is
\* Submitted, Finished or Failed.
C19_StatusMonotonic ==
    [][ /\ trigger_log.execution_status \in {"Finished", "Failed"} =>
              trigger_log'.execution_status = trigger_log.execution_status
        /\ trigger_log.execution_status \in {"Submitted", "Finished", "Failed"} =>
              trigger_log'.execution_status # "Delay" ]_vars

\* C20 (as claimed): at no time have two job runs been started by
\* start_job_run of which none has ended.
C20_AtMostOneStart == active_runs <= 1

\* C21: an execution of the SPDST trigger that has called start_job_run
\* has counted every priority file of the region as ready (pfcount equals
\* the number of priority files) and has found a BMT row with
\* execution_status Finished (BMTFlag = 1).
C21_StartOnlyWhenReady ==
    \A i \in Slots :
        invocations[i].pc \in {"start_job_run", "started"} =>
            /\ invocations[i].pfcount = invocations[i].priorityfiles
            /\ invocations[i].BMTFlag = 1

C21_Witness ==
    \E i \in Slots :
        /\ invocations[i].pc = "started"
        /\ invocations[i].priorityfiles = 2
        /\ invocations[i].pfcount = 2
        /\ active_runs = 1

\* ------------------------------------------- claims C22..C30 on the job
PublishCall(kind) == [fn |-> "publish", status |-> kind]

\* C22: every call of send_sns_message attempts the status publish first;
\* the user-facing publish is attempted only right after the status publish
\* of a call whose list of failures is empty, and never in a run that is
\* failing or has failed.
C22_StatusAlwaysUserOnlyOnSuccess ==
    /\ \A k \in 1..Len(calls) :
          calls[k].fn = "send_sns_message" =>
              IF k < Len(calls) THEN calls[k+1] = PublishCall("status")
              ELSE pc = "sns_status"
    /\ \A k \in 1..Len(calls) :
          calls[k] = PublishCall("user") =>
              /\ k >= 3
              /\ calls[k-1] = PublishCall("status")
              /\ calls[k-2] = SnsCall("Succeeded")
    /\ pc = "sns_user" => sns_args.failed_sps = <<>>
    /\ InFailurePath => \A k \in 1..Len(calls) : calls[k] # PublishCall("user")

C22_Witness ==
    /\ outcome = "raised"
    /\ SomeUnitFailed
    /\ Len(published) = 2
    /\ Cardinality(FailedStatusMessages) = 2

\* C23: whether or not a publish has raised, a run that has ended has
\* returned exactly when every unit succeeded and raised otherwise, and (the
\* audit store having accepted every statement) the audit rows hold what
\* the results of the units determine.
C23_PublishFailureChangesNothing ==
    pc = "done" =>
        /\ outcome = IF AllUnitsOk THEN "returned" ELSE "raised"
        /\ ~store_rejected =>
              IF AllUnitsOk /\ stored_procedures # <<>>
              THEN /\ trigger_log = [execution_status |-> "Finished", error_message |-> Null,
                                     actual_end_time |-> "set"]
                   /\ master.status = "Completed"
              ELSE IF EmptyWorkList \/ error_message = Unset
                   THEN /\ trigger_log = [execution_status |-> "Submitted",
                                          error_message |-> NA, actual_end_time |-> "unset"]
                        /\ master.status = "InProgress"
                   ELSE /\ trigger_log = [execution_status |-> "Failed",
                                          error_message |-> error_message,
                                          actual_end_time |-> "set"]
                        /\ master.status = "Failed"

C23_Witness ==
    /\ pc = "done"
    /\ publish_errors >= 1
    /\ ~store_rejected
    /\ outcome = "returned"
    /\ Len(results) = 2
    /\ published = <<>>

\* the latest entry of events
LastEvent == IF events = <<>> THEN "none" ELSE events[Len(events)]

\* describe_statement has raised for the statement submitted last
DescribeRaised == "describe_statement raised" \in Range(events)

\* C24 (as claimed): check_query_status never calls describe_statement
\* twice in a row for one query id; a sleep separates the calls, also after
\* a call that answered with a non-terminal status.
C24_SleepBetweenPolls == pc = "c_poll" => LastEvent # "describe_statement"

\* C25: once describe_statement has raised for a statement, no describe call
\* for that statement follows; check_query_status returns FAILED with the
\* exception text as the error, and execute_sp_with_retries counts one
\* failed attempt: retries equals the number of attempts made for the unit,
\* the attempt is recorded as FAILED and the unit does not succeed on it.
C25_DescribeErrorIsOneFailedAttempt ==
    DescribeRaised =>
        /\ pc # "c_poll"
        /\ \A k \in 1..Len(events) :
              events[k] = "describe_statement raised" =>
                  \A m \in (k+1)..Len(events) :
                      events[m] \notin {"describe_statement", "describe_statement raised"}
        /\ LastOf(attempts) = "FAILED"
        /\ pc = "e_classify" =>
              /\ query_status = "FAILED"
              /\ response_error = ExceptionText
              /\ retries = Len(attempts) - 1
        /\ pc # "e_classify" =>
              /\ retries = Len(attempts)
              /\ last_error = ExceptionText
        /\ pc = "m_after" =>
              /\ ~success
              /\ retries = RETRY_LIMIT

C25_Witness ==
    /\ DescribeRaised
    /\ pc = "e_submit"
    /\ RETRY_LIMIT = 2
    /\ retries = 1
    /\ attempts = <<"FAILED">>
    /\ LastEvent = "sleep(120)"

\* C26 (as claimed): execute_sp_with_retries submits a unit again only after
\* the retry sleep, whether the earlier attempt ended with status FAILED or
\* with an exception of the submission.
C26_SleepBeforeResubmission ==
    (pc = "e_submit" /\ attempts # <<>>) => LastEvent = "sleep(120)"

\* C27 (as claimed): while a statement of one unit is submitted and polled,
\* no statement submitted for a different unit of the run is still
\* non-terminal in the engine.
C27_OneUnitInFlight == pc = "c_poll" => abandoned \in {0, idx}

\* what the results of the units determine for the audit rows of a run that
\* has ended
AuditRowsOfResults ==
    IF AllUnitsOk /\ stored_procedures # <<>>
    THEN /\ trigger_log = [execution_status |-> "Finished", error_message |-> Null,
                           actual_end_time |-> "set"]
         /\ master.status = "Completed"
    ELSE IF EmptyWorkList \/ error_message = Unset
         THEN /\ trigger_log = [execution_status |-> "Submitted",
                                error_message |-> NA, actual_end_time |-> "unset"]
              /\ master.status = "InProgress"
         ELSE /\ trigger_log = [execution_status |-> "Failed",
                                error_message |-> error_message,
                                actual_end_time |-> "set"]
              /\ master.status = "Failed"

\* what the results of the units determine for the notifications of a run
\* that has ended
NotificationsOfResults ==
    IF AllUnitsOk
    THEN <<StatusMsg("Succeeded", <<>>), UserMsg>>
    ELSE IF failed_sp_entry = NoEntry
         THEN <<StatusMsg("Failed", <<UnexpectedError>>)>>
         ELSE <<StatusMsg("Failed", <<failed_sp_entry>>),
                StatusMsg("Failed", <<UnexpectedError>>)>>

\* C28: execute_with_retry executes a statement at most max_retries (3)
\* times; the status a run-end call writes, on whichever attempt, is the
\* outcome main determined from the units; and a run that has ended with
\* store errors but without an audit write given up (the third attempt at
\* the latest succeeded) has the outcome, the audit rows and (no publish
\* having raised) the notifications of a run without store errors.
C28_AuditRetryBounded ==
    /\ ua_attempt \in 1..max_retries
    /\ (pc = "ua_exec" /\ ua_stmt \in {"sql1", "sql2"}) =>
          /\ ua_args.status = IF AllUnitsOk THEN "Completed" ELSE "Failed"
          /\ ua_args.execution_status = IF AllUnitsOk THEN "Finished" ELSE "Failed"
          /\ ua_stmt = "sql2" => trigger_log.execution_status = ua_args.execution_status
    /\ (pc = "done" /\ ~audit_exhausted) =>
          /\ outcome = IF AllUnitsOk THEN "returned" ELSE "raised"
          /\ AuditRowsOfResults
          /\ publish_errors = 0 => published = NotificationsOfResults

C28_Witness ==
    /\ pc = "ua_exec"
    /\ ua_stmt = "sql2"
    /\ ua_attempt = max_retries
    /\ ~audit_exhausted
    /\ ua_args.status = "Failed"
    /\ trigger_log.execution_status = "Failed"
    /\ master.status = "InProgress"

\* fetch_pending_sps has raised
FetchRaised == idx = 0 /\ (pc = "m_except" \/ Len(calls) >= 2)

\* C29: fetch_pending_sps makes at most max_retries (3) lookups; once a
\* lookup has succeeded no further lookup is made; it has raised only after
\* the third failed lookup, and then main has no work list: it submits
\* nothing, takes no empty-list branch and does not return.
C29_FetchRetryBounded ==
    /\ fetch_attempt \in 1..max_retries
    /\ idx >= 1 => (pc # "m_fetch" /\ fetch_attempt = 1)
    /\ pc = "m_empty" => EmptyWorkList
    /\ FetchRaised =>
          /\ fetch_attempt = max_retries
          /\ store_rejected
          /\ stored_procedures = <<>>
          /\ submitted = <<>>
          /\ pc # "m_empty"
          /\ SnsCall("Succeeded") \notin Range(calls)
          /\ outcome # "returned"

C29_Witness ==
    /\ FetchRaised
    /\ pc = "done"
    /\ outcome = "raised"
    /\ ~audit_exhausted

\* C30: the first thing main does is the call of update_audit_log with
\* InProgress and is_initial; while that call runs nothing has been fetched
\* or submitted, its statement sets the status and the start timestamp, and
\* the fetch begins with InProgress and the timestamp stored unless the
\* store rejected the statement.
C30_InProgressFirst ==
    /\ pc # "m_start" => (calls # <<>> /\ calls[1] = AuditCall("InProgress"))
    /\ \A k \in 2..Len(calls) : calls[k] # AuditCall("InProgress")
    /\ (pc \in {"ua_entry", "ua_exec"} /\ ret = "m_fetch") =>
          /\ ua_args = [status |-> "InProgress", execution_status |-> "None",
                        is_initial |-> TRUE]
          /\ pc = "ua_exec" => ua_stmt = "initial"
          /\ idx = 0
          /\ stored_procedures = <<>>
          /\ submitted = <<>>
    /\ (pc = "m_fetch" /\ ~store_rejected) =>
          master = [status |-> "InProgress", actual_start_time |-> "set"]
    /\ (pc \in {"m_start", "ua_entry"} /\ Len(calls) <= 1) => master.actual_start_time = "unset"

C30_Witness ==
    /\ pc = "m_fetch"
    /\ calls = <<AuditCall("InProgress")>>
    /\ master = [status |-> "InProgress", actual_start_time |-> "set"]
    /\ store_rejected
    /\ idx = 0

\* C34 (as claimed): a run of main that has ended by raising has stored
\* execution_status Failed in the run-level row (the audit store having
\* accepted every statement).
C34_RaisedRunStoredFailed ==
    (pc = "done" /\ outcome = "raised" /\ ~store_rejected) =>
        trigger_log.execution_status = "Failed"

\* C35 (as claimed): while a resubmitted statement of a unit is in the
\* engine, no earlier statement of that unit is still non-terminal there.
C35_ResubmitAfterTerminal ==
    (pc = "c_poll" /\ Len(attempts) >= 2) => abandoned # idx

\* C31 (as claimed): with the handler invoked sequentially, the step of an
\* invocation that has counted no row of the day, its INSERT, leaves the row
\* 'Yet to start' in the store and starts no job; at most one row of the
\* triple exists and no step deletes it.
C31_RowInsertedOnce ==
    [][ /\ \A i \in Slots :
             (invocations[i].pc = "insert" /\ invocations'[i] # invocations[i]) =>
                 /\ trigger_log' = YetToStartRow
                 /\ log_rows' = 1
                 /\ UNCHANGED <<active_runs, job_runs, last_run, master, published>>
        /\ log_rows' <= 1
        /\ duplicate_row' = NoRow
        /\ trigger_log # NoRow => trigger_log' # NoRow ]_vars

\* C31 (amended): with the handler invoked sequentially, only an invocation
\* that has counted a row of the day goes on to the guard; an invocation
\* that has counted none executes the INSERT and ends: when the store
\* executes it the row 'Yet to start' is the one row of the triple, when the
\* store raises there is still no row (a later invocation counts none and
\* inserts); that invocation starts no job, writes nothing else and
\* publishes nothing.  At most one row of the triple exists and no step
\* deletes it.
C31_RowInsertedWhenStoreAccepts ==
    [][ /\ \A i \in Slots :
             /\ (invocations[i].pc = "insert" /\ invocations'[i] # invocations[i]) =>
                    /\ log_rows = 0
                    /\ invocations'[i].pc = "idle"
                    /\ \/ trigger_log' = YetToStartRow /\ log_rows' = 1
                       \/ UNCHANGED <<trigger_log, log_rows>>
                    /\ UNCHANGED <<active_runs, job_runs, last_run, master, published>>
             /\ (invocations[i].pc = "idle" /\ invocations'[i].pc = "insert") => log_rows = 0
             /\ (invocations[i].pc = "idle" /\ invocations'[i].pc = "guard") => log_rows = 1
        /\ active_runs' > active_runs => log_rows = 1
        /\ log_rows' <= 1
        /\ duplicate_row' = NoRow
        /\ log_rows = 0 <=> trigger_log = NoRow
        /\ trigger_log # NoRow => trigger_log' # NoRow ]_vars

\* a second invocation has found the row of the first and goes on to the guard
C31_Witness ==
    /\ invoked = 2
    /\ log_rows = 1
    /\ trigger_log = YetToStartRow
    /\ \E i \in Slots : invocations[i].pc = "guard"

\* C36 (as claimed): the write of 'Submitted' that follows start_job_run
\* does not replace a Finished or Failed that the started job has written
\* (in the first invocation that gets past the insert, so that the only job
\* run of the day is the one this invocation started).
C36_SubmittedKeepsJobStatus ==
    [][ (invoked <= 2 /\ trigger_log.execution_status \in {"Finished", "Failed"}) =>
            trigger_log'.execution_status # "Submitted" ]_vars

\* C37 (as claimed): the job of this region and the dependent job of the
\* other region are never running at the same time.
C37_DependentJobsExclusive == ~(active_runs >= 1 /\ dependent_job = "running")

\* ------------------------------------------- claims on the legacy scripts
\* C32 (as claimed): once an execution has reported FAILED or a submission
\* has raised, the legacy script submits no further unit.
C32_LegacyFailFast ==
    legacy.first_failure # 0 => Len(legacy.submitted) = legacy.first_failure

\* exec_order of the row of the work list called sp_name
OrderOf(sp_name) ==
    (CHOOSE r \in Range(legacy.table) : r.stored_procedure_name = sp_name).exec_order

\* C33 (as claimed): a run of a legacy script in which no execution failed
\* has, after its loop, submitted every row of the work list exactly once,
\* in ascending exec_order.
C33_LegacyEveryUnitOnce ==
    (legacy.pc \in {"notify", "done"} /\ legacy.first_failure = 0) =>
        /\ Len(legacy.submitted) = Len(legacy.table)
        /\ \A k \in 1..Len(legacy.table) :
              Cardinality({ m \in 1..Len(legacy.submitted) :
                              legacy.submitted[m] = legacy.table[k].stored_procedure_name }) = 1
        /\ \A m, n \in 1..Len(legacy.submitted) :
              m < n => OrderOf(legacy.submitted[m]) <= OrderOf(legacy.submitted[n])

\* C38 (as claimed): a legacy script reaches its end-of-run writes for every
\* work list, and what it writes agrees: execution_status is Failed exactly
\* when the master status is Failed and exactly when error_message is not
\* the Null sentinel.
C38_LegacyEndValuesAgree ==
    /\ legacy.pc # "crashed"
    /\ legacy.pc \in {"notify", "done"} =>
          /\ legacy.written.execution_status = "Failed" <=> legacy.written.status = "Failed"
          /\ legacy.written.execution_status = "Failed" <=>
                 legacy.written.error_message # LegacyNull(legacy.script)

\* ------------------------------------------------ claim on the BMT trigger
\* the time of day is at or after the cut-off start plus the allowance
AtOrAfterCutoff ==
    bmt_trigger.execution.hour * 60 + bmt_trigger.execution.minute >=
        (bmt_trigger.cutoff_strt_hour + bmt_trigger.extraHour) * 60
            + bmt_trigger.cutoff_strt_min + bmt_trigger.extraMin

\* C39 (as claimed): the BMT trigger starts the job without the
\* priority-file check exactly at the times of day at or after the cut-off
\* start plus the extra allowance, and makes the check at every earlier time.
C39_ForcedStartFromCutoff ==
    /\ bmt_trigger.execution.branch = "start without priority files" => AtOrAfterCutoff
    /\ bmt_trigger.execution.branch = "priority files" => ~AtOrAfterCutoff

====
